---- MODULE Spec2Model ----
(***************************************************************************)
(* Model of git_activity_dashboard: the file classifier (classifier.py),   *)
(* the commit-log parser and per-repository aggregation                    *)
(* (analyzer.py, GitAnalyzer.analyze_repo), the queries over the analyzed  *)
(* repositories (get_activity_summary, get_daily_activity,                 *)
(* get_weekly_activity, get_total_stats) and the command-line driver       *)
(* (cli.py, main).                                                         *)
(*                                                                         *)
(* Text is kept as text: paths and log lines are strings, and lower(),     *)
(* substring search, splitext(), strip(), split() and the numstat regular  *)
(* expression are computed character by character.                         *)
(***************************************************************************)
EXTENDS Integers, Sequences, FiniteSets, TLC

VARIABLES
    fc_input,           \* classifier harness: the arguments of the classify() calls
    fc_first,           \* classifier harness: what the first call returned
    fc_second,          \* classifier harness: what the second call returned
    pc,                 \* position of main()
    opts,               \* argparse result
    cwd,                \* os.getcwd()
    repo_paths,         \* main(): the resolved repository list
    idx,                \* main(): index of the next path of repo_paths (1-based)
    repos,              \* GitAnalyzer._repos
    results,            \* what each finished analyze_repo() call returned: "None" or "stats"
    env_git,            \* how the git subprocess of the current analyze_repo() call ended
    stats,              \* analyze_repo(): the RepoStats under construction, or NoneObj
    current_commit,     \* analyze_repo(): the open commit, or NoneObj
    languages,          \* analyze_repo(): defaultdict(int) keyed by language
    contribution_types, \* analyze_repo(): defaultdict(int) keyed by ContributionType
    log_seen,           \* analyze_repo(): the lines of git's output consumed so far
    nlines,             \* number of log lines consumed in this run
    exception,          \* the exception that left main(), or None
    exit_code,          \* return value of main(), -1 before it returns
    stderr,             \* diagnostics printed to standard error
    written,            \* files and directories the exports created
    query,              \* the query made on the GitAnalyzer, or NoneObj
    answer              \* what the query returned (or the exception it raised)

cls_vars == <<fc_input, fc_first, fc_second>>

cli_vars == <<pc, opts, cwd, repo_paths, idx, repos, results, env_git, stats,
              current_commit, languages, contribution_types, log_seen, nlines,
              exception, exit_code, stderr, written>>

qry_vars == <<query, answer>>

vars == <<cls_vars, cli_vars, qry_vars>>

\* Python's None, where the other values are strings.
None == "<None>"

\* Python's None, where the other values are objects (records).
NoneObj == [none |-> TRUE]

-----------------------------------------------------------------------------
(* Text primitives.                                                        *)

Char(s, i) == SubSeq(s, i, i)

Upper == "ABCDEFGHIJKLMNOPQRSTUVWXYZ"
Lowercase == "abcdefghijklmnopqrstuvwxyz"

\* str.lower() on one character.
LowerChar(c) ==
    IF \E k \in 1..Len(Upper) : Char(Upper, k) = c
    THEN Char(Lowercase, CHOOSE k \in 1..Len(Upper) : Char(Upper, k) = c)
    ELSE c

RECURSIVE Lower(_)
\* str.lower()
Lower(s) == IF s = "" THEN "" ELSE LowerChar(Char(s, 1)) \o Lower(SubSeq(s, 2, Len(s)))

\* `pattern in s`
Contains(pattern, s) ==
    \E i \in 0..(Len(s) - Len(pattern)) : SubSeq(s, i + 1, i + Len(pattern)) = pattern

\* s.startswith(prefix)
StartsWith(s, prefix) == Len(s) >= Len(prefix) /\ SubSeq(s, 1, Len(prefix)) = prefix

\* Largest index of character c in s, 0 when absent (str.rfind + 1).
RFind(s, c) ==
    IF \E i \in 1..Len(s) : Char(s, i) = c
    THEN CHOOSE i \in 1..Len(s) : Char(s, i) = c /\ \A j \in (i + 1)..Len(s) : Char(s, j) # c
    ELSE 0

\* os.path.splitext(p)[1]: the extension starts at the last dot of the last
\* path component, leading dots of that component not counted.
SplitExt(p) ==
    LET sepIndex == RFind(p, "/")
        dotIndex == RFind(p, ".")
        \* first character of the basename that is not a dot
        lead == CHOOSE k \in (sepIndex + 1)..(Len(p) + 1) :
                    /\ (k <= Len(p) => Char(p, k) # ".")
                    /\ \A j \in (sepIndex + 1)..(k - 1) : Char(p, j) = "."
    IN  IF dotIndex > sepIndex /\ dotIndex > lead
        THEN SubSeq(p, dotIndex, Len(p))
        ELSE ""

-----------------------------------------------------------------------------
(* classifier.py                                                           *)

ContributionType ==
    {"production_code", "tests", "documentation", "specs_config",
     "infrastructure", "styling", "other"}

TEST_PATTERNS ==
    {"test_", "_test.", ".test.", "tests/", "/test/", "spec_", "_spec.",
     ".spec.", "specs/", "/spec/", "__tests__/", ".tests.", "testing/",
     "unittest", "pytest", "jest", "mocha", "cypress/", "e2e/"}

DOC_PATTERNS ==
    {"readme", "changelog", "contributing", "license", "authors",
     "docs/", "/doc/", "documentation/", ".md", ".rst", ".txt",
     "wiki/", "guide", "manual", "api-docs/"}

DOC_EXTENSIONS == {".md", ".rst", ".txt", ".adoc", ".wiki"}

SPEC_CONFIG_PATTERNS ==
    {"package.json", "tsconfig", "webpack", "babel", "eslint", "prettier",
     ".yaml", ".yml", ".json", ".toml", ".ini", ".cfg", ".conf",
     "openapi", "swagger", "schema", ".env", "config/", "/config",
     "settings", ".editorconfig", ".gitignore", ".dockerignore",
     "pyproject.toml", "setup.py", "setup.cfg", "requirements",
     "Gemfile", "Cargo.toml", "go.mod", "pom.xml", "build.gradle",
     ".github/", ".gitlab-ci", "azure-pipelines", "Jenkinsfile",
     ".travis", "circle.yml", "bitbucket-pipelines"}

INFRA_PATTERNS ==
    {"dockerfile", "docker-compose", "kubernetes/", "k8s/", "helm/",
     "terraform/", ".tf", "ansible/", "puppet/", "chef/",
     "cloudformation", "pulumi/", "vagrant", "makefile", "cmake",
     "deploy/", "deployment/", "infra/", "infrastructure/",
     "scripts/deploy", "scripts/build", ".sh", "nginx", "apache"}

STYLE_PATTERNS ==
    {".css", ".scss", ".sass", ".less", ".styl", ".styled.",
     "styles/", "/style/", "theme", ".tailwind"}

LANGUAGE_MAP ==
    [e \in {".py", ".js", ".ts", ".tsx", ".jsx", ".cs", ".java", ".go", ".rs",
            ".rb", ".php", ".swift", ".kt", ".scala", ".c", ".cpp", ".h",
            ".hpp", ".vue", ".svelte", ".html", ".sql", ".r", ".m", ".pl",
            ".lua", ".dart", ".elm", ".ex", ".exs", ".erl", ".hs", ".clj",
            ".fs", ".fsx"} |->
        CASE e = ".py" -> "Python"
          [] e = ".js" -> "JavaScript"
          [] e = ".ts" -> "TypeScript"
          [] e = ".tsx" -> "TypeScript (React)"
          [] e = ".jsx" -> "JavaScript (React)"
          [] e = ".cs" -> "C#"
          [] e = ".java" -> "Java"
          [] e = ".go" -> "Go"
          [] e = ".rs" -> "Rust"
          [] e = ".rb" -> "Ruby"
          [] e = ".php" -> "PHP"
          [] e = ".swift" -> "Swift"
          [] e = ".kt" -> "Kotlin"
          [] e = ".scala" -> "Scala"
          [] e = ".c" -> "C"
          [] e = ".cpp" -> "C++"
          [] e = ".h" -> "C/C++ Header"
          [] e = ".hpp" -> "C++ Header"
          [] e = ".vue" -> "Vue"
          [] e = ".svelte" -> "Svelte"
          [] e = ".html" -> "HTML"
          [] e = ".sql" -> "SQL"
          [] e = ".r" -> "R"
          [] e = ".m" -> "MATLAB/Objective-C"
          [] e = ".pl" -> "Perl"
          [] e = ".lua" -> "Lua"
          [] e = ".dart" -> "Dart"
          [] e = ".elm" -> "Elm"
          [] e = ".ex" -> "Elixir"
          [] e = ".exs" -> "Elixir"
          [] e = ".erl" -> "Erlang"
          [] e = ".hs" -> "Haskell"
          [] e = ".clj" -> "Clojure"
          [] e = ".fs" -> "F#"
          [] e = ".fsx" -> "F#"]

\* dict.get(ext)
LanguageOf(ext) == IF ext \in DOMAIN LANGUAGE_MAP THEN LANGUAGE_MAP[ext] ELSE None

\* any(pattern in file_lower for pattern in patterns)
AnyPattern(patterns, file_lower) == \E pattern \in patterns : Contains(pattern, file_lower)

FileClassification(file_path, contribution_type, language, lines_added, lines_removed) ==
    [file_path |-> file_path, contribution_type |-> contribution_type,
     language |-> language, lines_added |-> lines_added,
     lines_removed |-> lines_removed]

\* classify with the spec/config check made before the test check
classify_config_first(file_path, lines_added, lines_removed) ==
    LET file_lower == Lower(file_path)
        ext == Lower(SplitExt(file_path))
        language == LanguageOf(ext)
    IN  IF AnyPattern(SPEC_CONFIG_PATTERNS, file_lower)
        THEN FileClassification(file_path, "specs_config", "Configuration",
                                lines_added, lines_removed)
        ELSE IF AnyPattern(TEST_PATTERNS, file_lower)
        THEN FileClassification(file_path, "tests", language, lines_added, lines_removed)
        ELSE IF ext \in DOC_EXTENSIONS \/ AnyPattern(DOC_PATTERNS, file_lower)
        THEN FileClassification(file_path, "documentation", "Documentation",
                                lines_added, lines_removed)
        ELSE IF AnyPattern(INFRA_PATTERNS, file_lower)
        THEN FileClassification(file_path, "infrastructure",
                                IF language # None THEN language ELSE "Infrastructure",
                                lines_added, lines_removed)
        ELSE IF AnyPattern(STYLE_PATTERNS, file_lower)
        THEN FileClassification(file_path, "styling", "CSS/Styling",
                                lines_added, lines_removed)
        ELSE IF language # None
        THEN FileClassification(file_path, "production_code", language,
                                lines_added, lines_removed)
        ELSE FileClassification(file_path, "other", None, lines_added, lines_removed)

\* classify handing back the lower-cased path it matched against
classify_lowered(file_path, lines_added, lines_removed) ==
    LET file_lower == Lower(file_path)
        ext == Lower(SplitExt(file_path))
        language == LanguageOf(ext)
    IN  IF AnyPattern(TEST_PATTERNS, file_lower)
        THEN FileClassification(file_lower, "tests", language, lines_added, lines_removed)
        ELSE IF ext \in DOC_EXTENSIONS \/ AnyPattern(DOC_PATTERNS, file_lower)
        THEN FileClassification(file_lower, "documentation", "Documentation",
                                lines_added, lines_removed)
        ELSE IF AnyPattern(INFRA_PATTERNS, file_lower)
        THEN FileClassification(file_lower, "infrastructure",
                                IF language # None THEN language ELSE "Infrastructure",
                                lines_added, lines_removed)
        ELSE IF AnyPattern(SPEC_CONFIG_PATTERNS, file_lower)
        THEN FileClassification(file_lower, "specs_config", "Configuration",
                                lines_added, lines_removed)
        ELSE IF AnyPattern(STYLE_PATTERNS, file_lower)
        THEN FileClassification(file_lower, "styling", "CSS/Styling",
                                lines_added, lines_removed)
        ELSE IF language # None
        THEN FileClassification(file_lower, "production_code", language,
                                lines_added, lines_removed)
        ELSE FileClassification(file_lower, "other", None, lines_added, lines_removed)

\* FileClassifier.classify
classify(file_path, lines_added, lines_removed) ==
    LET file_lower == Lower(file_path)
        ext == Lower(SplitExt(file_path))
        language == LanguageOf(ext)
    IN  IF AnyPattern(TEST_PATTERNS, file_lower)
        THEN FileClassification(file_path, "tests", language, lines_added, lines_removed)
        ELSE IF ext \in DOC_EXTENSIONS \/ AnyPattern(DOC_PATTERNS, file_lower)
        THEN FileClassification(file_path, "documentation", "Documentation",
                                lines_added, lines_removed)
        ELSE IF AnyPattern(INFRA_PATTERNS, file_lower)
        THEN FileClassification(file_path, "infrastructure",
                                IF language # None THEN language ELSE "Infrastructure",
                                lines_added, lines_removed)
        ELSE IF AnyPattern(SPEC_CONFIG_PATTERNS, file_lower)
        THEN FileClassification(file_path, "specs_config", "Configuration",
                                lines_added, lines_removed)
        ELSE IF AnyPattern(STYLE_PATTERNS, file_lower)
        THEN FileClassification(file_path, "styling", "CSS/Styling",
                                lines_added, lines_removed)
        ELSE IF language # None
        THEN FileClassification(file_path, "production_code", language,
                                lines_added, lines_removed)
        ELSE FileClassification(file_path, "other", None, lines_added, lines_removed)

-----------------------------------------------------------------------------
(* Text primitives of the log parser.                                      *)

Whitespace == {" ", "\t", "\n", "\r", "\f"}

\* str.strip()
Strip(s) ==
    IF \A i \in 1..Len(s) : Char(s, i) \in Whitespace
    THEN ""
    ELSE LET first == CHOOSE i \in 1..Len(s) :
                          /\ Char(s, i) \notin Whitespace
                          /\ \A j \in 1..(i - 1) : Char(s, j) \in Whitespace
             last == CHOOSE i \in 1..Len(s) :
                          /\ Char(s, i) \notin Whitespace
                          /\ \A j \in (i + 1)..Len(s) : Char(s, j) \in Whitespace
         IN  SubSeq(s, first, last)

\* str.count(c) for a one-character c
Count(s, c) == Cardinality({i \in 1..Len(s) : Char(s, i) = c})

\* Index of the first occurrence of character c in s at or after position
\* from, 0 when there is none.
FindFrom(s, c, from) ==
    IF \E i \in from..Len(s) : Char(s, i) = c
    THEN CHOOSE i \in from..Len(s) : Char(s, i) = c /\ \A j \in from..(i - 1) : Char(s, j) # c
    ELSE 0

RECURSIVE Split(_, _, _)
\* str.split(sep, maxsplit) for a one-character sep
Split(s, sep, maxsplit) ==
    LET i == FindFrom(s, sep, 1)
    IN  IF maxsplit = 0 \/ i = 0
        THEN <<s>>
        ELSE <<SubSeq(s, 1, i - 1)>> \o Split(SubSeq(s, i + 1, Len(s)), sep, maxsplit - 1)

RECURSIVE Replace(_, _, _)
\* str.replace(old, new) for a one-character old
Replace(s, old, new) ==
    IF s = "" THEN ""
    ELSE (IF Char(s, 1) = old THEN new ELSE Char(s, 1)) \o Replace(SubSeq(s, 2, Len(s)), old, new)

Digits == "0123456789"

IsDigit(c) == \E k \in 1..10 : Char(Digits, k) = c

DigitValue(c) == (CHOOSE k \in 1..10 : Char(Digits, k) = c) - 1

\* regular expression \d+
IsDigits(s) == s # "" /\ \A i \in 1..Len(s) : IsDigit(Char(s, i))

RECURSIVE ParseInt(_)
\* int(s) for a string of decimal digits
ParseInt(s) ==
    IF s = "" THEN 0
    ELSE 10 * ParseInt(SubSeq(s, 1, Len(s) - 1)) + DigitValue(Char(s, Len(s)))

\* the count group without the placeholder: \d+
IsCountDigits(group) == IsDigits(group)

\* regular expression (\d+|-)
IsCount(group) == IsDigits(group) \/ group = "-"

\* re.match(r'^(\d+|-)\t(\d+|-)\t(.+)$', line): the three groups, <<>> without match.
\* Neither count group can hold a tab, so group 1 ends at the first tab and
\* group 2 at the next one; group 3 is the non-empty rest.
NumstatMatch(line) ==
    LET t1 == FindFrom(line, "\t", 1)
        t2 == IF t1 = 0 THEN 0 ELSE FindFrom(line, "\t", t1 + 1)
        g1 == SubSeq(line, 1, t1 - 1)
        g2 == SubSeq(line, t1 + 1, t2 - 1)
        g3 == SubSeq(line, t2 + 1, Len(line))
    IN  IF /\ t1 > 0
           /\ t2 > 0
           /\ IsCount(g1)
           /\ IsCount(g2)
           /\ g3 # ""
           /\ ~Contains("\n", g3)
        THEN <<g1, g2, g3>>
        ELSE <<>>

-----------------------------------------------------------------------------
(* datetime                                                                *)

\* A datetime is [t: whole seconds of its wall clock since
\* 1970-01-01T00:00:00, us: its microsecond, tzinfo: NoneObj for a naive
\* datetime, else a timezone].
DateTime(t, tzinfo) == [t |-> t, us |-> 0, tzinfo |-> tzinfo]

\* datetime.timezone(timedelta(seconds=utcoffset))
timezone(utcoffset) == [utcoffset |-> utcoffset]

IsAware(d) == d.tzinfo # NoneObj

\* The instant an aware datetime denotes; the wall clock of a naive one.
Instant(d) == IF IsAware(d) THEN d.t - d.tzinfo.utcoffset ELSE d.t

\* a < b and a <= b for two aware or two naive datetimes
Less(a, b) ==
    Instant(a) < Instant(b) \/ (Instant(a) = Instant(b) /\ a.us < b.us)

LessEq(a, b) ==
    Instant(a) < Instant(b) \/ (Instant(a) = Instant(b) /\ a.us <= b.us)

\* Days from 1970-01-01 to the civil date y-m-d (proleptic Gregorian).
DaysFromCivil(y, m, d) ==
    LET yy == IF m <= 2 THEN y - 1 ELSE y
        era == yy \div 400
        yoe == yy - era * 400
        mp == IF m > 2 THEN m - 3 ELSE m + 9
        doy == (153 * mp + 2) \div 5 + d - 1
        doe == yoe * 365 + yoe \div 4 - yoe \div 100 + doy
    IN  era * 146097 + doe - 719468

IsLeap(y) == (y % 4 = 0 /\ y % 100 # 0) \/ y % 400 = 0

DaysInMonth(y, m) ==
    IF m = 2 THEN (IF IsLeap(y) THEN 29 ELSE 28)
    ELSE IF m \in {4, 6, 9, 11} THEN 30 ELSE 31

ValueError == [raised |-> "ValueError"]

\* datetime.fromisoformat(s) for the forms YYYY-MM-DD, YYYY-MM-DDTHH:MM:SS
\* and YYYY-MM-DDTHH:MM:SS(+|-)HH:MM (what `git log --format=%aI` prints);
\* any other text is a ValueError.
fromisoformat(s) ==
    LET num(a, b) == ParseInt(SubSeq(s, a, b))
        digits(a, b) == IsDigits(SubSeq(s, a, b))
        dateOk == /\ Len(s) >= 10
                  /\ digits(1, 4) /\ Char(s, 5) = "-" /\ digits(6, 7)
                  /\ Char(s, 8) = "-" /\ digits(9, 10)
                  /\ num(1, 4) >= 1
                  /\ num(6, 7) \in 1..12
                  /\ num(9, 10) \in 1..DaysInMonth(num(1, 4), num(6, 7))
        timeOk == /\ Len(s) >= 19
                  /\ digits(12, 13) /\ Char(s, 14) = ":" /\ digits(15, 16)
                  /\ Char(s, 17) = ":" /\ digits(18, 19)
                  /\ num(12, 13) < 24 /\ num(15, 16) < 60 /\ num(18, 19) < 60
        zoneOk == /\ Len(s) = 25
                  /\ Char(s, 20) \in {"+", "-"}
                  /\ digits(21, 22) /\ Char(s, 23) = ":" /\ digits(24, 25)
                  /\ num(21, 22) < 24 /\ num(24, 25) < 60
        day == DaysFromCivil(num(1, 4), num(6, 7), num(9, 10)) * 86400
        time == num(12, 13) * 3600 + num(15, 16) * 60 + num(18, 19)
        zone == (IF Char(s, 20) = "-" THEN -1 ELSE 1) * (num(21, 22) * 3600 + num(24, 25) * 60)
    IN  IF ~dateOk THEN ValueError
        ELSE IF Len(s) = 10 THEN DateTime(day, NoneObj)
        ELSE IF ~timeOk THEN ValueError
        ELSE IF Len(s) = 19 THEN DateTime(day + time, NoneObj)
        ELSE IF zoneOk THEN DateTime(day + time, timezone(zone))
        ELSE ValueError

TypeError == [raised |-> "TypeError"]

\* min(dates) / max(dates): each element is compared with the running
\* result; comparing a naive with an aware datetime raises TypeError.
Mixed(dates) == \E i, j \in 1..Len(dates) : IsAware(dates[i]) # IsAware(dates[j])

\* the first date of the list taken for the earliest
MinDateHead(dates) == IF Mixed(dates) THEN TypeError ELSE dates[1]

RECURSIVE MinDate(_)
MinDate(dates) ==
    IF Mixed(dates) THEN TypeError
    ELSE IF Len(dates) = 1 THEN dates[1]
    ELSE LET rest == MinDate(Tail(dates))
         IN  IF Less(rest, dates[1]) THEN rest ELSE dates[1]

RECURSIVE MaxDate(_)
MaxDate(dates) ==
    IF Mixed(dates) THEN TypeError
    ELSE IF Len(dates) = 1 THEN dates[1]
    ELSE LET rest == MaxDate(Tail(dates))
         IN  IF Less(dates[1], rest) THEN rest ELSE dates[1]
-----------------------------------------------------------------------------
(* The filesystem the program runs on.                                     *)

\* os.path.join(a, b) for a relative b
join(a, b) == a \o "/" \o b

\* Every directory, with its entries in os.listdir() order.
DirEntries ==
    [d \in {"/w", "/w/a", "/w/a/.git", "/w/a/sub", "/w/a/sub/.git", "/w/b",
            "/w/b/.git", "/w/x", "/w/x/a", "/w/x/a/.git", "/e"} |->
        CASE d = "/w" -> <<"a", "b", "x", "f.txt">>
          [] d = "/w/x" -> <<"a">>
          [] d = "/w/x/a" -> <<".git", "go.mod">>
          [] d = "/w/a" -> <<".git", "sub", "setup.py", "README.md">>
          [] d = "/w/a/sub" -> <<".git">>
          [] d = "/w/b" -> <<".git", "Dockerfile", "app.csproj">>
          [] OTHER -> <<>>]

\* os.path.isdir(p)
isdir(p) == p \in DOMAIN DirEntries

\* os.path.exists(p)
exists(p) ==
    \/ isdir(p)
    \/ \E d \in DOMAIN DirEntries : \E i \in 1..Len(DirEntries[d]) : join(d, DirEntries[d][i]) = p

\* os.path.abspath(p) for a path without "." and ".." components
abspath(p) == IF StartsWith(p, "/") THEN p ELSE join(cwd, p)

\* os.path.basename(p)
basename(p) == SubSeq(p, RFind(p, "/") + 1, Len(p))

-----------------------------------------------------------------------------
(* Bounds and inputs.                                                      *)

\* Most log lines git prints in one run, over all repositories.
MaxLines == 3

\* Most paths given with --repos.
MaxRepos == 2

\* The commits git prints a header line for: the values of %H, %an, %ae,
\* %aI and %s. An author name and a subject may hold any text.
GitHeaders ==
    {[hash |-> "a1", author |-> "Ann", email |-> "ann@x.io",
      date |-> "2024-01-02T10:00:00+00:00", subject |-> "init"],
     [hash |-> "c3", author |-> "Cy", email |-> "cy@x.io",
      date |-> "2024-01-01T09:30:00Z", subject |-> "docs"],
     [hash |-> "d4", author |-> "Dee|Ops", email |-> "dee@x.io",
      date |-> "2024-01-03T08:00:00+00:00", subject |-> "ci"],
     [hash |-> "e5", author |-> "Eve", email |-> "eve@x.io",
      date |-> "2024-01-03T09:00:00+00:00", subject |-> "a|b"]}

\* The file changes git prints a --numstat line for. A path may hold any
\* text.
GitFiles ==
    {[added |-> "10", removed |-> "0", path |-> "src/app.py"],
     [added |-> "-", removed |-> "-", path |-> "docs/logo.png"],
     [added |-> "3", removed |-> "-", path |-> "README.md"],
     [added |-> "1", removed |-> "1", path |-> "a|b|c|d|e.md"]}

\* analyze_repo, line 190: the line of --format=%H|%an|%ae|%aI|%s for c
log_format(c) ==
    c.hash \o "|" \o c.author \o "|" \o c.email \o "|" \o c.date \o "|" \o c.subject

\* analyze_repo, line 192: the line of --numstat for f
numstat_format(f) == f.added \o "\t" \o f.removed \o "\t" \o f.path

\* The lines git's output is made of: the header and numstat lines, a
\* header with an unreadable date, a padded numstat line, a blank line and
\* a line of free text.
LogLines ==
    {log_format(c) : c \in GitHeaders}
        \cup {numstat_format(f) : f \in GitFiles}
        \cup {"b2|Bob|bob@x.io|yesterday|fix",
              " 5\t2\ttests/test_app.py ",
              "",
              "Merge branch 'main'"}

\* The lines of the runs over several repositories.
CliLogLines ==
    {"a1|Ann|ann@x.io|2024-01-02T10:00:00+00:00|init",
     "b2|Bob|bob@x.io|yesterday|fix",
     "10\t0\tsrc/app.py",
     "-\t-\tdocs/logo.png"}

\* The values datetime.now() can return: a naive local time.
NowValues == {[t |-> 1704456000, us |-> 250000, tzinfo |-> NoneObj]}

\* The arguments of --repos
RepoArgs == {"a", "/w/x"}

RepoLists == UNION {[1..n -> RepoArgs] : n \in 1..MaxRepos}

\* The arguments of --scan and --depth
ScanArgs == {"/w", "/w/a", "/e", "/w/f.txt"}
DepthArgs == {0, 3}

\* The working directories of a run without --repos and --scan
CwdChoices == {"/w/a", "/w"}

\* The export flags and --quiet of a run.
FlagChoices ==
    {[quiet |-> FALSE, all_exports |-> None, json |-> None, markdown |-> None,
      linkedin |-> None, portfolio |-> None, badge |-> None],
     [quiet |-> TRUE, all_exports |-> None, json |-> "o.json", markdown |-> None,
      linkedin |-> None, portfolio |-> "p.md", badge |-> "badge.md"],
     [quiet |-> TRUE, all_exports |-> "out", json |-> None, markdown |-> None,
      linkedin |-> None, portfolio |-> None, badge |-> None],
     [quiet |-> FALSE, all_exports |-> "out", json |-> "o.json", markdown |-> None,
      linkedin |-> None, portfolio |-> None, badge |-> None]}

\* The logs of the repositories the queries are made over: two commits on
\* two days, one commit without a readable date, two older commits, a
\* commit without a readable date with a dated one, none.
ApiLogs ==
    {<< "a1|Ann|ann@x.io|2024-01-05T00:00:00+01:00|feature",
        "10\t0\tsrc/app.py",
        "5\t0\ttests/test_app.py",
        "",
        "b2|Bob|bob@x.io|2024-01-01T00:00:00+01:00|docs",
        "3\t0\tREADME.md" >>,
     << "c3|Cy|cy@x.io|yesterday|fix",
        " 5\t2\ttests/test_app.py " >>,
     << "d4|Dee|dee@x.io|2024-01-04T23:59:59+01:00|logo",
        "-\t-\tdocs/logo.png",
        "e5|Eve|eve@x.io|2023-12-01T08:00:00Z|start" >>,
     << "c3|Cy|cy@x.io|yesterday|fix",
        "e5|Eve|eve@x.io|2023-12-01T08:00:00Z|start" >>,
     << >>}

\* The repositories the queries are made over.
ApiPaths == {"/w/a", "/w/x/a", "/w/b"}

\* The UTC offset of the local time zone, in seconds.
LocalOffset == 3600

\* The values datetime.now() can return when a query is made: the time of
\* the analysis, and a day and a half later.
QueryNowValues ==
    {[t |-> 1704456000, us |-> 250000, tzinfo |-> NoneObj],
     [t |-> 1704456000 + 129600, us |-> 0, tzinfo |-> NoneObj]}

\* The period kinds a summary is asked for.
Periods == {"day", "week", "month", "custom", "year"}

\* The custom bounds a summary is asked for: none, a timezone-aware one and
\* a naive one.
CustomStarts ==
    {NoneObj,
     [t |-> 1704067200, us |-> 0, tzinfo |-> [utcoffset |-> 3600]],
     [t |-> 1704326400, us |-> 0, tzinfo |-> NoneObj]}

CustomEnds ==
    {NoneObj,
     [t |-> 1704412799, us |-> 0, tzinfo |-> [utcoffset |-> 3600]],
     [t |-> 1704499200, us |-> 0, tzinfo |-> NoneObj]}

\* The numbers of days and weeks the rolling summaries are asked for.
BucketCounts == {0, 1, 3}

\* The exporter classes and the output_path an export is called with.
Exporters ==
    {"JSONExporter", "MarkdownExporter", "LinkedInExporter", "PortfolioExporter",
     "ReadmeBadgeExporter"}

OutputPaths == {None, "report.out"}

\* The paths and line counts classify() is called with.
ClassifyPaths ==
    {"tests/jest.config.js", "tests/settings.json", "tests/test_app.py",
     "docs/test_plan.md", "src/app.py", "Main.JAVA", "README.md", "LICENSE",
     "docs/deploy/run.sh", "Dockerfile", "deploy/run.py", "package.json",
     "deploy/config.yaml", "Cargo.toml", "Gemfile", "Jenkinsfile",
     ".gitignore", "app.css", "src/theme.ts", "config/theme.json",
     "notes.xyz", "a.tar.gz", "src/.hidden"}

ClassifyCounts == {<<0, 0>>, <<10, 0>>, <<2, 5>>}

-----------------------------------------------------------------------------
(* analyzer.py                                                             *)

CommitInfo(hash, author, email, date, message) ==
    [hash |-> hash, author |-> author, email |-> email, date |-> date,
     message |-> message, files_changed |-> 0, lines_added |-> 0,
     lines_removed |-> 0, file_classifications |-> <<>>]

RepoStats(name, path) ==
    [name |-> name, path |-> path, total_commits |-> 0, total_lines_added |-> 0,
     total_lines_removed |-> 0, total_files_changed |-> 0,
     first_commit_date |-> NoneObj, last_commit_date |-> NoneObj,
     languages |-> <<>>, contribution_types |-> <<>>, commits |-> <<>>,
     technologies |-> {}, description |-> ""]

\* d[k] += v on a defaultdict(int)
DictAdd(d, k, v) ==
    IF k \in DOMAIN d THEN [d EXCEPT ![k] = @ + v] ELSE d @@ (k :> v)

\* How subprocess.run(['git', ...], timeout=60) can end.
GitOutcomes == {"ok", "nonzero", "timeout", "missing"}

\* GitAnalyzer._run_git_command: the success flag
run_git_command_success(outcome) ==
    CASE outcome = "ok" -> TRUE
      [] outcome = "nonzero" -> FALSE
      [] outcome = "timeout" -> FALSE       \* subprocess.TimeoutExpired, caught
      [] outcome = "missing" -> FALSE       \* FileNotFoundError, caught

\* GitAnalyzer._get_repo_description: the text the README of the directory
\* yields (the first paragraph, at most 200 characters), "" without README.
get_repo_description(repo_path) ==
    IF repo_path = "/w/a" THEN "Sample project." ELSE ""

tech_indicators ==
    {<<"package.json", {"Node.js", "JavaScript"}>>,
     <<"tsconfig.json", {"TypeScript"}>>,
     <<"requirements.txt", {"Python"}>>,
     <<"pyproject.toml", {"Python"}>>,
     <<"Pipfile", {"Python"}>>,
     <<"Gemfile", {"Ruby"}>>,
     <<"Cargo.toml", {"Rust"}>>,
     <<"go.mod", {"Go"}>>,
     <<"pom.xml", {"Java", "Maven"}>>,
     <<"build.gradle", {"Java", "Gradle"}>>,
     <<"*.csproj", {"C#", ".NET"}>>,
     <<"*.sln", {"C#", ".NET"}>>,
     <<"Dockerfile", {"Docker"}>>,
     <<"docker-compose.yml", {"Docker"}>>,
     <<"kubernetes/", {"Kubernetes"}>>,
     <<"terraform/", {"Terraform"}>>,
     <<".github/workflows/", {"GitHub Actions"}>>,
     <<"angular.json", {"Angular"}>>,
     <<"next.config.js", {"Next.js"}>>,
     <<"nuxt.config.js", {"Nuxt.js"}>>,
     <<"vue.config.js", {"Vue.js"}>>,
     <<"tailwind.config.js", {"Tailwind CSS"}>>,
     <<"webpack.config.js", {"Webpack"}>>,
     <<".eslintrc", {"ESLint"}>>,
     <<"jest.config", {"Jest"}>>,
     <<"pytest.ini", {"Pytest"}>>,
     <<"setup.py", {"Python"}>>}

\* GitAnalyzer._detect_technologies (the sorted list, as the set it lists)
detect_technologies(repo_path) ==
    LET present(indicator) ==
            IF Contains("*", indicator)
            THEN \E i \in 1..Len(DirEntries[repo_path]) :
                     Contains(Replace(indicator, "*", ""), DirEntries[repo_path][i])
            ELSE IF Char(indicator, Len(indicator)) = "/"
            THEN isdir(join(repo_path, SubSeq(indicator, 1, Len(indicator) - 1)))
            ELSE exists(join(repo_path, indicator))
    IN  UNION {ind[2] : ind \in {i \in tech_indicators : present(i[1])}}

\* analyze_repo, lines 209-211: is the stripped line a commit header?
IsCommitLine(line) ==
    /\ Contains("|", line)
    /\ Count(line, "|") >= 4
    /\ Len(Split(line, "|", 4)) = 5

\* analyze_repo, lines 233-234: a count group of the numstat line
numstat_count(group) == IF group = "-" THEN 0 ELSE ParseInt(group)

\* analyze_repo, lines 204-238: what one output line is, whatever the state
\* of the parse: the stripped line, the header fields with the parsed date
\* when it is a commit line, and the counts, path and classification when it
\* matches the numstat expression.
scan_line(raw) ==
    LET line == Strip(raw)
        parts == Split(line, "|", 4)
        numstat_match == NumstatMatch(line)
    IN  [line |-> line,
         header |->
            IF line # "" /\ IsCommitLine(line)
            THEN [hash |-> parts[1], author |-> parts[2], email |-> parts[3],
                  date |-> fromisoformat(Replace(parts[4], "Z", "+00:00")),
                  message |-> parts[5]]
            ELSE NoneObj,
         numstat |->
            IF numstat_match # <<>>
            THEN [added |-> numstat_count(numstat_match[1]),
                  removed |-> numstat_count(numstat_match[2]),
                  filepath |-> numstat_match[3],
                  classification |->
                      classify(numstat_match[3], numstat_count(numstat_match[1]),
                               numstat_count(numstat_match[2]))]
            ELSE NoneObj]

\* scan_line of every line of the input, computed once.
ScannedLines ==
    [raw \in LogLines \cup UNION {{log[i] : i \in 1..Len(log)} : log \in ApiLogs} |->
        scan_line(raw)]

\* analyze_repo, lines 216-219: the date of a header, `now` on ValueError
commit_date(parsed, now) == IF parsed = ValueError THEN now ELSE parsed

\* the previous commit saved only when it changed files
save_previous_changed(commits, cur) ==
    IF cur # NoneObj /\ cur.files_changed > 0 THEN Append(commits, cur) ELSE commits

\* analyze_repo, lines 213-214: "save previous commit"
save_previous(commits, cur) == IF cur # NoneObj THEN Append(commits, cur) ELSE commits

\* the file change put in front of the commit's list
attach_prepended(cur, numstat) ==
    [cur EXCEPT
        !.file_classifications = <<numstat.classification>> \o @,
        !.lines_added = @ + numstat.added,
        !.lines_removed = @ + numstat.removed,
        !.files_changed = @ + 1]

\* analyze_repo, lines 238-242: the file change is attached to the open commit
attach(cur, numstat) ==
    [cur EXCEPT
        !.file_classifications = Append(@, numstat.classification),
        !.lines_added = @ + numstat.added,
        !.lines_removed = @ + numstat.removed,
        !.files_changed = @ + 1]

\* the language credited with one per changed file
track_language_files(langs, numstat) ==
    IF numstat.classification.language # None
    THEN DictAdd(langs, numstat.classification.language, 1)
    ELSE langs

\* analyze_repo, lines 245-246: languages[classification.language] += ...
track_language(langs, numstat) ==
    IF numstat.classification.language # None
    THEN DictAdd(langs, numstat.classification.language, numstat.added + numstat.removed)
    ELSE langs

\* the contribution type credited with the added lines only
track_contribution_added(ctypes, numstat) ==
    DictAdd(ctypes, numstat.classification.contribution_type, numstat.added)

\* analyze_repo, line 247: contribution_types[...] += added + removed
track_contribution(ctypes, numstat) ==
    DictAdd(ctypes, numstat.classification.contribution_type,
            numstat.added + numstat.removed)

\* the loop iteration that credits a file change even with no commit open
parse_line_crediting_orphans(raw, commits, cur, langs, ctypes, now) ==
    LET scanned == ScannedLines[raw]
        header == scanned.header
        numstat == scanned.numstat
    IN  IF scanned.line = "" THEN <<commits, cur, langs, ctypes>>
        ELSE IF header # NoneObj
        THEN <<save_previous(commits, cur),
               CommitInfo(header.hash, header.author, header.email,
                          commit_date(header.date, now), header.message),
               langs, ctypes>>
        ELSE IF numstat # NoneObj
        THEN <<commits, IF cur # NoneObj THEN attach(cur, numstat) ELSE cur,
               track_language(langs, numstat), track_contribution(ctypes, numstat)>>
        ELSE <<commits, cur, langs, ctypes>>

\* analyze_repo, lines 203-247: one iteration of the loop over the output
\* lines. Yields the next <<stats.commits, current_commit, languages,
\* contribution_types>>.
parse_line(raw, commits, cur, langs, ctypes, now) ==
    LET scanned == ScannedLines[raw]
        header == scanned.header
        numstat == scanned.numstat
    IN  IF scanned.line = "" THEN <<commits, cur, langs, ctypes>>
        ELSE IF header # NoneObj
        THEN <<save_previous(commits, cur),
               CommitInfo(header.hash, header.author, header.email,
                          commit_date(header.date, now), header.message),
               langs, ctypes>>
        ELSE IF numstat # NoneObj /\ cur # NoneObj
        THEN <<commits, attach(cur, numstat), track_language(langs, numstat),
               track_contribution(ctypes, numstat)>>
        ELSE <<commits, cur, langs, ctypes>>

\* the open commit forgotten at the end of the output
close_last_forgotten(commits, cur) == commits

\* analyze_repo, lines 249-251: "don't forget the last commit"
close_last(commits, cur) == IF cur # NoneObj THEN Append(commits, cur) ELSE commits

RECURSIVE Sum(_)
\* sum(seq)
Sum(seq) == IF seq = <<>> THEN 0 ELSE Head(seq) + Sum(Tail(seq))

CommitDates(commits) == [i \in 1..Len(commits) |-> commits[i].date]

\* the totals with the removed lines summed from lines_added
with_totals_added_twice(st, commits, langs, ctypes) ==
    LET added == [i \in 1..Len(commits) |-> commits[i].lines_added]
        files == [i \in 1..Len(commits) |-> commits[i].files_changed]
    IN  [st EXCEPT
            !.commits = commits,
            !.total_commits = Len(commits),
            !.languages = langs,
            !.contribution_types = ctypes,
            !.total_lines_added = @ + Sum(added),
            !.total_lines_removed = @ + Sum(added),
            !.total_files_changed = @ + Sum(files)]

\* analyze_repo, lines 253-261: the totals of the record
with_totals(st, commits, langs, ctypes) ==
    LET added == [i \in 1..Len(commits) |-> commits[i].lines_added]
        removed == [i \in 1..Len(commits) |-> commits[i].lines_removed]
        files == [i \in 1..Len(commits) |-> commits[i].files_changed]
    IN  [st EXCEPT
            !.commits = commits,
            !.total_commits = Len(commits),
            !.languages = langs,
            !.contribution_types = ctypes,
            !.total_lines_added = @ + Sum(added),
            !.total_lines_removed = @ + Sum(removed),
            !.total_files_changed = @ + Sum(files)]

\* analyze_repo, lines 263-266: does min(dates) raise?
dates_raise(st) ==
    st.commits # <<>> /\ MinDate(CommitDates(st.commits)) = TypeError

\* analyze_repo, lines 263-266: first and last commit date
with_dates(st) ==
    IF st.commits = <<>> THEN st
    ELSE [st EXCEPT !.first_commit_date = MinDate(CommitDates(st.commits)),
                    !.last_commit_date = MaxDate(CommitDates(st.commits))]

RECURSIVE parse_lines(_, _, _, _, _, _)
\* analyze_repo, lines 203-247: the loop over the output lines
parse_lines(log, commits, cur, langs, ctypes, now) ==
    LET Rest(next) == parse_lines(Tail(log), next[1], next[2], next[3], next[4], now)
    IN  IF log = <<>> THEN <<commits, cur, langs, ctypes>>
        ELSE Rest(parse_line(Head(log), commits, cur, langs, ctypes, now))

\* GitAnalyzer.analyze_repo as one call: what it returns (NoneObj for None)
\* or raises, given how git ended and what it printed.
analyze_repo(repo_path, outcome, log, now) ==
    LET Dated(st) == IF dates_raise(st) THEN TypeError ELSE with_dates(st)
        Totalled(parsed) ==
            Dated(with_totals(
                      [RepoStats(basename(abspath(repo_path)), repo_path) EXCEPT
                          !.description = get_repo_description(repo_path),
                          !.technologies = detect_technologies(repo_path)],
                      close_last(parsed[1], parsed[2]), parsed[3], parsed[4]))
    IN  IF ~isdir(join(repo_path, ".git")) THEN NoneObj
        ELSE IF ~run_git_command_success(outcome) THEN NoneObj
        ELSE Totalled(parse_lines(log, <<>>, NoneObj, <<>>, <<>>, now))

RECURSIVE search_items(_, _, _, _)
RECURSIVE search(_, _, _)
\* find_git_repos: the loop over os.listdir(path), from entry i on
search_items(path, i, depth, max_depth) ==
    IF i > Len(DirEntries[path]) THEN <<>>
    ELSE LET item == DirEntries[path][i]
             item_path == join(path, item)
         IN  (IF isdir(item_path) /\ ~StartsWith(item, ".")
              THEN search(item_path, depth + 1, max_depth)
              ELSE <<>>) \o search_items(path, i + 1, depth, max_depth)

\* the search going on below a directory it took for a repository
search_through(path, depth, max_depth) ==
    IF depth > max_depth THEN <<>>
    ELSE (IF isdir(join(path, ".git")) THEN <<path>> ELSE <<>>)
         \o search_items(path, 1, depth, max_depth)

\* find_git_repos: the nested search(path, depth)
search(path, depth, max_depth) ==
    IF depth > max_depth THEN <<>>
    ELSE IF isdir(join(path, ".git")) THEN <<path>>
    ELSE search_items(path, 1, depth, max_depth)

\* GitAnalyzer.find_git_repos
find_git_repos(base_path, max_depth) == search(base_path, 0, max_depth)
-----------------------------------------------------------------------------
(* analyzer.py: the queries over the collection of analyzed repositories.  *)

\* datetime.now().astimezone(): the local time with the local UTC offset
astimezone(now, utcoffset) == [now EXCEPT !.tzinfo = timezone(utcoffset)]

\* d + timedelta(seconds=s)
plus_seconds(d, s) == [d EXCEPT !.t = @ + s]

\* d.replace(hour=0, minute=0, second=0, microsecond=0)
replace_midnight(d) == [d EXCEPT !.t = @ - (@ % 86400), !.us = 0]

\* d.replace(hour=23, minute=59, second=59, microsecond=999999)
replace_end_of_day(d) == [d EXCEPT !.t = @ - (@ % 86400) + 86399, !.us = 999999]

\* d.weekday(): Monday is 0 (1970-01-01 was a Thursday)
weekday(d) == ((d.t \div 86400) + 3) % 7

\* The civil date <<year, month, day>> of the wall clock of d.
CivilDate(d) ==
    LET OfMonth(yoe, era, doy, mp) ==
            <<yoe + era * 400 + (IF mp < 10 THEN 0 ELSE 1),
              IF mp < 10 THEN mp + 3 ELSE mp - 9,
              doy - (153 * mp + 2) \div 5 + 1>>
        OfDay(yoe, era, doy) == OfMonth(yoe, era, doy, (5 * doy + 2) \div 153)
        OfYear(yoe, era, doe) ==
            OfDay(yoe, era, doe - (365 * yoe + yoe \div 4 - yoe \div 100))
        OfEra(era, doe) ==
            OfYear((doe - doe \div 1460 + doe \div 36524 - doe \div 146096) \div 365,
                   era, doe)
        OfDays(z) == OfEra(z \div 146097, z % 146097)
    IN  OfDays((d.t \div 86400) + 719468)

\* d.replace(day=1, hour=0, minute=0, second=0, microsecond=0)
replace_first_of_month(d) ==
    [d EXCEPT !.t = @ - (@ % 86400) - (CivilDate(d)[3] - 1) * 86400, !.us = 0]

\* d.strftime(fmt) for the three formats of analyzer.py: %A the name of the
\* day, %b the short name of the month, %d and %m two digits
strftime(d, fmt) ==
    LET TwoDigits(n) == IF n < 10 THEN "0" \o ToString(n) ELSE ToString(n)
        DayNames ==
            <<"Monday", "Tuesday", "Wednesday", "Thursday", "Friday", "Saturday",
              "Sunday">>
        MonthNames ==
            <<"Jan", "Feb", "Mar", "Apr", "May", "Jun", "Jul", "Aug", "Sep", "Oct",
              "Nov", "Dec">>
        Formatted(c) ==
            CASE fmt = "%Y-%m-%d" ->
                    ToString(c[1]) \o "-" \o TwoDigits(c[2]) \o "-" \o TwoDigits(c[3])
              [] fmt = "%A, %b %d" ->
                    DayNames[weekday(d) + 1] \o ", " \o MonthNames[c[2]] \o " "
                        \o TwoDigits(c[3])
              [] fmt = "%b %d" -> MonthNames[c[2]] \o " " \o TwoDigits(c[3])
    IN  Formatted(CivilDate(d))

ActivitySummary(period_start, period_end, period_label) ==
    [period_start |-> period_start, period_end |-> period_end,
     period_label |-> period_label, commits |-> 0, lines_added |-> 0,
     lines_removed |-> 0, files_changed |-> 0, repos_active |-> 0,
     contribution_breakdown |-> <<>>, language_breakdown |-> <<>>]

\* the period with the current week as the fallback window
period_window_week_fallback(period, custom_start, custom_end, now) ==
    IF period = "day"
    THEN [start |-> replace_midnight(now), end |-> now, label |-> "Today"]
    ELSE IF period = "month"
    THEN [start |-> replace_first_of_month(now), end |-> now, label |-> "This Month"]
    ELSE IF period = "custom" /\ custom_start # NoneObj /\ custom_end # NoneObj
    THEN [start |-> custom_start, end |-> custom_end,
          label |-> strftime(custom_start, "%Y-%m-%d") \o " to "
                        \o strftime(custom_end, "%Y-%m-%d")]
    ELSE [start |-> replace_midnight(plus_seconds(now, -(weekday(now) * 86400))),
          end |-> now, label |-> "This Week"]

\* get_activity_summary, lines 319-340: start, end and label of the period
period_window(period, custom_start, custom_end, now) ==
    IF period = "day"
    THEN [start |-> replace_midnight(now), end |-> now, label |-> "Today"]
    ELSE IF period = "week"
    THEN [start |-> replace_midnight(plus_seconds(now, -(weekday(now) * 86400))),
          end |-> now, label |-> "This Week"]
    ELSE IF period = "month"
    THEN [start |-> replace_first_of_month(now), end |-> now, label |-> "This Month"]
    ELSE IF period = "custom" /\ custom_start # NoneObj /\ custom_end # NoneObj
    THEN [start |-> custom_start, end |-> custom_end,
          label |-> strftime(custom_start, "%Y-%m-%d") \o " to "
                        \o strftime(custom_end, "%Y-%m-%d")]
    ELSE [start |-> plus_seconds(now, -(7 * 86400)), end |-> now,
          label |-> "Last 7 Days"]

\* "make commit date timezone-aware if it isn't":
\* commit_date.replace(tzinfo=start.tzinfo)
aligned(date, start) ==
    IF date.tzinfo = NoneObj THEN [date EXCEPT !.tzinfo = start.tzinfo] ELSE date

\* `start <= commit_date <= end` raises TypeError when a comparison it makes
\* is between a naive and an aware datetime.
within_raises(date, start, end) ==
    LET d == aligned(date, start)
    IN  \/ IsAware(start) # IsAware(d)
        \/ LessEq(start, d) /\ IsAware(d) # IsAware(end)

\* start < commit_date < end
within_exclusive(date, start, end) ==
    LET d == aligned(date, start)
    IN  Less(start, d) /\ Less(d, end)

\* start <= commit_date <= end
within(date, start, end) ==
    LET d == aligned(date, start)
    IN  LessEq(start, d) /\ LessEq(d, end)

RECURSIVE all_commits(_)
\* for repo in self._repos: for commit in repo.commits
all_commits(rs) ==
    IF rs = <<>> THEN <<>>
    ELSE [i \in 1..Len(Head(rs).commits) |->
             [repo |-> Head(rs).name, commit |-> Head(rs).commits[i]]]
         \o all_commits(Tail(rs))

\* The <<repo, commit>> pairs of the loop that lie in the period.
commits_within(rs, start, end) ==
    SelectSeq(all_commits(rs), LAMBDA x : within(x.commit.date, start, end))

\* Does a comparison of the loop raise?
loop_raises(rs, start, end) ==
    \E i \in 1..Len(all_commits(rs)) :
        within_raises(all_commits(rs)[i].commit.date, start, end)

RECURSIVE classifications_of(_)
\* for classification in commit.file_classifications, over the commits
classifications_of(sel) ==
    IF sel = <<>> THEN <<>>
    ELSE Head(sel).commit.file_classifications \o classifications_of(Tail(sel))

RECURSIVE contribution_breakdown(_)
\* contribution_breakdown[classification.contribution_type] += added + removed
contribution_breakdown(fcs) ==
    IF fcs = <<>> THEN <<>>
    ELSE LET last == fcs[Len(fcs)]
         IN  DictAdd(contribution_breakdown(SubSeq(fcs, 1, Len(fcs) - 1)),
                     last.contribution_type, last.lines_added + last.lines_removed)

RECURSIVE language_breakdown(_)
\* if classification.language: language_breakdown[...] += added + removed
language_breakdown(fcs) ==
    IF fcs = <<>> THEN <<>>
    ELSE LET last == fcs[Len(fcs)]
             rest == language_breakdown(SubSeq(fcs, 1, Len(fcs) - 1))
         IN  IF last.language # None /\ last.language # ""
             THEN DictAdd(rest, last.language, last.lines_added + last.lines_removed)
             ELSE rest

\* the set of the names of the repositories of the commits: active_repos
active_repos(sel) == {sel[i].repo : i \in 1..Len(sel)}

\* GitAnalyzer.get_activity_summary
get_activity_summary(rs, period, custom_start, custom_end, now) ==
    LET Counted(w, sel, fcs) ==
            [ActivitySummary(w.start, w.end, w.label) EXCEPT
                !.commits = Len(sel),
                !.lines_added = Sum([i \in 1..Len(sel) |-> sel[i].commit.lines_added]),
                !.lines_removed = Sum([i \in 1..Len(sel) |-> sel[i].commit.lines_removed]),
                !.files_changed = Sum([i \in 1..Len(sel) |-> sel[i].commit.files_changed]),
                !.repos_active = Cardinality(active_repos(sel)),
                !.contribution_breakdown = contribution_breakdown(fcs),
                !.language_breakdown = language_breakdown(fcs)]
        Selected(w, sel) == Counted(w, sel, classifications_of(sel))
        Over(w) ==
            IF loop_raises(rs, w.start, w.end) THEN TypeError
            ELSE Selected(w, commits_within(rs, w.start, w.end))
    IN  Over(period_window(period, custom_start, custom_end, now))

\* the bucket of the day i days ahead
daily_bucket_forward(rs, i, now) ==
    LET day == plus_seconds(now, i * 86400)
        start == replace_midnight(day)
        end == replace_end_of_day(day)
        sel == commits_within(rs, start, end)
    IN  [ActivitySummary(start, end, strftime(day, "%A, %b %d")) EXCEPT
            !.commits = Len(sel),
            !.lines_added = Sum([k \in 1..Len(sel) |-> sel[k].commit.lines_added]),
            !.lines_removed = Sum([k \in 1..Len(sel) |-> sel[k].commit.lines_removed])]

\* get_daily_activity, lines 386-407: the bucket of the day i days back
daily_bucket(rs, i, now) ==
    LET day == plus_seconds(now, -(i * 86400))
        start == replace_midnight(day)
        end == replace_end_of_day(day)
        sel == commits_within(rs, start, end)
    IN  [ActivitySummary(start, end, strftime(day, "%A, %b %d")) EXCEPT
            !.commits = Len(sel),
            !.lines_added = Sum([k \in 1..Len(sel) |-> sel[k].commit.lines_added]),
            !.lines_removed = Sum([k \in 1..Len(sel) |-> sel[k].commit.lines_removed])]

RECURSIVE get_daily_activity(_, _, _)
\* GitAnalyzer.get_daily_activity: for i in range(days), appended in turn
get_daily_activity(rs, days, now) ==
    IF days <= 0 THEN <<>>
    ELSE Append(get_daily_activity(rs, days - 1, now), daily_bucket(rs, days - 1, now))

\* get_weekly_activity, lines 417-444: the bucket of the week i weeks back
weekly_bucket(rs, i, now) ==
    LET week_start == replace_midnight(
                          plus_seconds(now, -((weekday(now) + i * 7) * 86400)))
        week_end == plus_seconds(week_start, 6 * 86400 + 23 * 3600 + 59 * 60 + 59)
        sel == commits_within(rs, week_start, week_end)
    IN  [ActivitySummary(week_start, week_end,
                         "Week of " \o strftime(week_start, "%b %d")) EXCEPT
            !.commits = Len(sel),
            !.lines_added = Sum([k \in 1..Len(sel) |-> sel[k].commit.lines_added]),
            !.lines_removed = Sum([k \in 1..Len(sel) |-> sel[k].commit.lines_removed]),
            !.files_changed = Sum([k \in 1..Len(sel) |-> sel[k].commit.files_changed]),
            !.repos_active = Cardinality(active_repos(sel))]

RECURSIVE get_weekly_activity(_, _, _)
\* GitAnalyzer.get_weekly_activity: for i in range(weeks), appended in turn
get_weekly_activity(rs, weeks, now) ==
    IF weeks <= 0 THEN <<>>
    ELSE Append(get_weekly_activity(rs, weeks - 1, now),
                weekly_bucket(rs, weeks - 1, now))
-----------------------------------------------------------------------------
(* cli.py: main(), with the analyze_repo() calls it makes.                 *)

\* create_parser().parse_args(): the options of a run
Options(repos_arg, scan, depth, flags) ==
    [repos |-> repos_arg, scan |-> scan, depth |-> depth, quiet |-> flags.quiet,
     all_exports |-> flags.all_exports, json |-> flags.json,
     markdown |-> flags.markdown, linkedin |-> flags.linkedin,
     portfolio |-> flags.portfolio, badge |-> flags.badge]

\* The classifier harness, not in use.
ClsIdle ==
    /\ fc_input = NoneObj
    /\ fc_first = NoneObj
    /\ fc_second = NoneObj

\* main() and GitAnalyzer() before the first statement
Fresh ==
    /\ idx = 1
    /\ repos = <<>>
    /\ results = <<>>
    /\ env_git = None
    /\ stats = NoneObj
    /\ current_commit = NoneObj
    /\ languages = <<>>
    /\ contribution_types = <<>>
    /\ log_seen = <<>>
    /\ nlines = 0
    /\ exception = NoneObj
    /\ exit_code = -1          \* main() has not returned
    /\ stderr = <<>>
    /\ written = {}
    /\ query = NoneObj
    /\ answer = NoneObj

Init ==
    /\ ClsIdle
    /\ pc = "main"
    /\ \/ /\ \E l \in RepoLists, f \in FlagChoices : opts = Options(l, None, 3, f)
          /\ cwd = "/w"
       \/ /\ \E sc \in ScanArgs, d \in DepthArgs, f \in FlagChoices :
                opts = Options(<<>>, sc, d, f)
          /\ cwd = "/w"
       \/ /\ \E f \in FlagChoices : opts = Options(<<>>, None, 3, f)
          /\ cwd \in CwdChoices
    /\ repo_paths = <<>>
    /\ Fresh

Return(code, message) ==
    /\ pc' = "returned"
    /\ exit_code' = code
    /\ stderr' = IF message = None THEN stderr ELSE Append(stderr, message)

\* main, lines 212-240: determine which repos to analyze
ResolveRepos ==
    /\ pc = "main"
    /\ IF opts.repos # <<>>
       THEN /\ repo_paths' = [i \in 1..Len(opts.repos) |-> abspath(opts.repos[i])]
            /\ pc' = "analyze"
            /\ UNCHANGED <<exit_code, stderr>>
       ELSE IF opts.scan # None
       THEN IF ~isdir(abspath(opts.scan))
            THEN /\ Return(1, "Error: not a directory")
                 /\ UNCHANGED repo_paths
            ELSE IF find_git_repos(abspath(opts.scan), opts.depth) = <<>>
            THEN /\ Return(1, "No git repositories found")
                 /\ repo_paths' = <<>>
            ELSE /\ repo_paths' = find_git_repos(abspath(opts.scan), opts.depth)
                 /\ pc' = "analyze"
                 /\ UNCHANGED <<exit_code, stderr>>
       ELSE IF isdir(join(cwd, ".git"))
            THEN /\ repo_paths' = <<cwd>>
                 /\ pc' = "analyze"
                 /\ UNCHANGED <<exit_code, stderr>>
            ELSE /\ pc' = "returned"
                 /\ exit_code' = 1
                 /\ stderr' = stderr \o
                        << "Error: Current directory is not a git repository.",
                           "Use -r to specify repos or -s to scan a directory." >>
                 /\ UNCHANGED repo_paths
    /\ UNCHANGED <<cls_vars, qry_vars, opts, cwd, idx, repos, results, env_git, stats,
                   current_commit, languages, contribution_types, log_seen,
                   nlines, exception, written>>

\* analyze_repo, lines 172-173: the path holds no .git directory
AnalyzeNotARepo ==
    /\ pc = "analyze"
    /\ idx <= Len(repo_paths)
    /\ ~isdir(join(repo_paths[idx], ".git"))
    /\ results' = Append(results, "None")
    /\ idx' = idx + 1
    /\ env_git' = None
    /\ UNCHANGED <<cls_vars, qry_vars, pc, opts, cwd, repo_paths, repos, stats,
                   current_commit, languages, contribution_types, log_seen,
                   nlines, exception, exit_code, stderr, written>>

\* analyze_repo, lines 175-196: the git command did not succeed
AnalyzeGitFails ==
    /\ pc = "analyze"
    /\ idx <= Len(repo_paths)
    /\ isdir(join(repo_paths[idx], ".git"))
    /\ \E outcome \in GitOutcomes :
          /\ ~run_git_command_success(outcome)
          /\ env_git' = outcome
    /\ results' = Append(results, "None")
    /\ idx' = idx + 1
    /\ UNCHANGED <<cls_vars, qry_vars, pc, opts, cwd, repo_paths, repos, stats,
                   current_commit, languages, contribution_types, log_seen,
                   nlines, exception, exit_code, stderr, written>>

\* analyze_repo, lines 175-201: the git command succeeded, parsing starts
AnalyzeGitOk ==
    /\ pc = "analyze"
    /\ idx <= Len(repo_paths)
    /\ isdir(join(repo_paths[idx], ".git"))
    /\ \E outcome \in GitOutcomes :
          /\ run_git_command_success(outcome)
          /\ env_git' = outcome
    /\ stats' = [RepoStats(basename(abspath(repo_paths[idx])), repo_paths[idx]) EXCEPT
                    !.description = get_repo_description(repo_paths[idx]),
                    !.technologies = detect_technologies(repo_paths[idx])]
    /\ current_commit' = NoneObj
    /\ languages' = <<>>
    /\ contribution_types' = <<>>
    /\ log_seen' = <<>>
    /\ pc' = "parse"
    /\ UNCHANGED <<cls_vars, qry_vars, opts, cwd, repo_paths, idx, repos, results, nlines,
                   exception, exit_code, stderr, written>>

\* analyze_repo, lines 203-247: the next line of the output, one of `lines`
ParseLineFrom(lines) ==
    /\ pc = "parse"
    /\ nlines < MaxLines
    /\ \E raw \in lines, now \in NowValues :
          LET next == parse_line(raw, stats.commits, current_commit, languages,
                                 contribution_types, now)
          IN  /\ stats' = [stats EXCEPT !.commits = next[1]]
              /\ current_commit' = next[2]
              /\ languages' = next[3]
              /\ contribution_types' = next[4]
              /\ log_seen' = Append(log_seen, raw)
    /\ nlines' = nlines + 1
    /\ UNCHANGED <<cls_vars, qry_vars, pc, opts, cwd, repo_paths, idx, repos, results,
                   env_git, exception, exit_code, stderr, written>>

ParseLineCli == ParseLineFrom(CliLogLines)

\* analyze_repo, lines 249-269: the output is exhausted
AnalyzeFinish ==
    /\ pc = "parse"
    /\ LET st == with_totals(stats, close_last(stats.commits, current_commit),
                             languages, contribution_types)
       IN  IF dates_raise(st)
           THEN /\ stats' = st
                /\ exception' = TypeError
                /\ pc' = "aborted"
                /\ UNCHANGED <<repos, results, idx>>
           ELSE /\ stats' = with_dates(st)
                /\ repos' = Append(repos, with_dates(st))
                /\ results' = Append(results, "stats")
                /\ idx' = idx + 1
                /\ pc' = "analyze"
                /\ UNCHANGED exception
    /\ UNCHANGED <<cls_vars, qry_vars, opts, cwd, repo_paths, env_git, current_commit,
                   languages, contribution_types, log_seen, nlines, exit_code,
                   stderr, written>>

\* main without the check that something was analyzed
GateOpen ==
    /\ pc = "analyze"
    /\ idx > Len(repo_paths)
    /\ pc' = "summary"
    /\ UNCHANGED <<cls_vars, qry_vars, opts, cwd, repo_paths, idx, repos, results, env_git,
                   stats, current_commit, languages, contribution_types,
                   log_seen, nlines, exception, exit_code, stderr, written>>

\* main, lines 250-252: nothing was analyzed
Gate ==
    /\ pc = "analyze"
    /\ idx > Len(repo_paths)
    /\ IF repos = <<>>
       THEN Return(1, "No repositories were successfully analyzed.")
       ELSE /\ pc' = "summary"
            /\ UNCHANGED <<exit_code, stderr>>
    /\ UNCHANGED <<cls_vars, qry_vars, opts, cwd, repo_paths, idx, repos, results, env_git,
                   stats, current_commit, languages, contribution_types,
                   log_seen, nlines, exception, written>>

RECURSIVE add_items(_, _)
\* for key, count in d.items(): total[key] += count
add_items(total, d) ==
    IF DOMAIN d = {} THEN total
    ELSE LET k == CHOOSE k \in DOMAIN d : TRUE
         IN  add_items(DictAdd(total, k, d[k]), [x \in DOMAIN d \ {k} |-> d[x]])

RECURSIVE merged(_, _)
\* get_total_stats, lines 460-470: the counts of dictionary field f of the
\* repositories, added up key by key
merged(rs, f) ==
    IF rs = <<>> THEN <<>>
    ELSE add_items(merged(SubSeq(rs, 1, Len(rs) - 1), f), rs[Len(rs)][f])

\* get_total_stats()['languages']
all_languages(rs) == merged(rs, "languages")

\* get_total_stats()['contribution_types']
all_contribution_types(rs) == merged(rs, "contribution_types")

RECURSIVE SumDict(_)
\* sum(d.values())
SumDict(d) ==
    IF DOMAIN d = {} THEN 0
    ELSE LET k == CHOOSE k \in DOMAIN d : TRUE
         IN  d[k] + SumDict([x \in DOMAIN d \ {k} |-> d[x]])

\* the percentage cut off after the first decimal
tenths_floor(count, total) == (count * 1000) \div total

\* round((count / total) * 100, 1), in tenths of a percent: the nearest
\* tenth, the even one of two equally near (for totals below 80 the float
\* quotient rounds as the exact one does)
tenths(count, total) ==
    LET q == (count * 1000) \div total
        r == (count * 1000) % total
    IN  IF 2 * r > total THEN q + 1
        ELSE IF 2 * r < total THEN q
        ELSE IF q % 2 = 0 THEN q ELSE q + 1

RECURSIVE percentages(_, _)
\* get_total_stats, lines 475-477: a percentage for every contribution type
percentages(types, total_lines) ==
    IF DOMAIN types = {} THEN <<>>
    ELSE LET k == CHOOSE k \in DOMAIN types : TRUE
         IN  percentages([x \in DOMAIN types \ {k} |-> types[x]], total_lines)
                 @@ (k :> tenths(types[k], total_lines))

\* GitAnalyzer.get_total_stats
get_total_stats(rs) ==
    LET types == all_contribution_types(rs)
        total_lines == SumDict(types)
        added == Sum([i \in 1..Len(rs) |-> rs[i].total_lines_added])
        removed == Sum([i \in 1..Len(rs) |-> rs[i].total_lines_removed])
    IN  [total_repos |-> Len(rs),
         total_commits |-> Sum([i \in 1..Len(rs) |-> rs[i].total_commits]),
         total_lines_added |-> added,
         total_lines_removed |-> removed,
         total_lines_changed |-> added + removed,
         total_files_changed |-> Sum([i \in 1..Len(rs) |-> rs[i].total_files_changed]),
         languages |-> all_languages(rs),
         contribution_types |-> types,
         contribution_percentages |->
            IF total_lines > 0
            THEN percentages(types, total_lines)
            ELSE <<>>]

\* print_summary, lines 169-180: `(count / total) * 100` divides by the sum
\* of the language counts
print_summary_raises(rs) ==
    LET langs == all_languages(rs)
    IN  /\ DOMAIN langs # {}
        /\ \A k \in DOMAIN langs : langs[k] = 0

ZeroDivisionError == [raised |-> "ZeroDivisionError"]

\* main, lines 254-256: the console summary
PrintSummary ==
    /\ pc = "summary"
    /\ IF ~opts.quiet /\ print_summary_raises(repos)
       THEN /\ exception' = ZeroDivisionError
            /\ pc' = "aborted"
       ELSE /\ pc' = "exports"
            /\ UNCHANGED exception
    /\ UNCHANGED <<cls_vars, qry_vars, opts, cwd, repo_paths, idx, repos, results, env_git,
                   stats, current_commit, languages, contribution_types,
                   log_seen, nlines, exit_code, stderr, written>>

\* main, lines 258-296: the files the export flags name
export_targets(o) ==
    IF o.all_exports # None
    THEN {o.all_exports} \cup
         {join(o.all_exports, f) :
             f \in {"activity.json", "report.md", "linkedin.txt", "portfolio.md", "badge.md"}}
    ELSE {o.json, o.markdown, o.linkedin, o.portfolio, o.badge} \ {None}

\* main, lines 259-296: the exporters main runs, in this order, each with
\* the file it writes
export_steps(o) ==
    IF o.all_exports # None
    THEN << [exporter |-> "JSONExporter",
             output_path |-> join(o.all_exports, "activity.json")],
            [exporter |-> "MarkdownExporter",
             output_path |-> join(o.all_exports, "report.md")],
            [exporter |-> "LinkedInExporter",
             output_path |-> join(o.all_exports, "linkedin.txt")],
            [exporter |-> "PortfolioExporter",
             output_path |-> join(o.all_exports, "portfolio.md")],
            [exporter |-> "ReadmeBadgeExporter",
             output_path |-> join(o.all_exports, "badge.md")] >>
    ELSE SelectSeq(<< [exporter |-> "JSONExporter", output_path |-> o.json],
                      [exporter |-> "MarkdownExporter", output_path |-> o.markdown],
                      [exporter |-> "LinkedInExporter", output_path |-> o.linkedin],
                      [exporter |-> "PortfolioExporter", output_path |-> o.portfolio],
                      [exporter |-> "ReadmeBadgeExporter", output_path |-> o.badge] >>,
                   LAMBDA step : step.output_path # None)

\* PortfolioExporter.export, lines 273-279: `round((count / total) * 100, 1)`
\* divides by the sum of the language counts, before the file is opened
portfolio_raises(rs) ==
    LET langs == all_languages(rs)
    IN  /\ DOMAIN langs # {}
        /\ \A k \in DOMAIN langs : langs[k] = 0

\* main, lines 258-298: os.makedirs for --all-exports, the exporters one
\* after the other, then `return 0`; an exporter that raises ends main
Exports ==
    /\ pc = "exports"
    /\ LET Run(steps, failing) ==
               LET done == IF failing = {} THEN Len(steps)
                           ELSE (CHOOSE i \in failing : TRUE) - 1
               IN  /\ written' = written
                          \cup (IF opts.all_exports # None THEN {opts.all_exports} ELSE {})
                          \cup {steps[i].output_path : i \in 1..done}
                   /\ IF failing = {}
                      THEN /\ Return(0, None)
                           /\ UNCHANGED exception
                      ELSE /\ exception' = ZeroDivisionError
                           /\ pc' = "aborted"
                           /\ UNCHANGED <<exit_code, stderr>>
           Failing(steps) ==
               {i \in 1..Len(steps) : /\ steps[i].exporter = "PortfolioExporter"
                                      /\ portfolio_raises(repos)}
           Started(steps) == Run(steps, Failing(steps))
       IN  Started(export_steps(opts))
    /\ UNCHANGED <<cls_vars, qry_vars, opts, cwd, repo_paths, idx, repos, results, env_git,
                   stats, current_commit, languages, contribution_types,
                   log_seen, nlines>>

Next ==
    \/ ResolveRepos
    \/ AnalyzeNotARepo
    \/ AnalyzeGitFails
    \/ AnalyzeGitOk
    \/ ParseLineCli
    \/ AnalyzeFinish
    \/ Gate
    \/ PrintSummary
    \/ Exports

Spec == Init /\ [][Next]_vars

-----------------------------------------------------------------------------
(* One analyze_repo() call, over every log of LogLines.                    *)

ParseLine == ParseLineFrom(LogLines)

\* main() with --repos /w/a, about to call analyze_repo
InitParse ==
    /\ ClsIdle
    /\ pc = "analyze"
    /\ opts = Options(<<"/w/a">>, None, 3, CHOOSE f \in FlagChoices : f.quiet)
    /\ cwd = "/w"
    /\ repo_paths = <<"/w/a">>
    /\ Fresh

NextParse ==
    \/ AnalyzeGitOk
    \/ ParseLine
    \/ AnalyzeFinish

SpecParse == InitParse /\ [][NextParse]_vars

-----------------------------------------------------------------------------
(* A GitAnalyzer used as a library: repositories are analyzed, then one    *)
(* query or one export is made on the collection.                          *)

InitSummary ==
    /\ ClsIdle
    /\ pc = "api"
    /\ opts = Options(<<>>, None, 3, CHOOSE f \in FlagChoices : f.quiet)
    /\ cwd = "/w"
    /\ repo_paths = <<>>
    /\ Fresh

\* analyzer.analyze_repo(path); `exception` is what this call raised
ApiAnalyze ==
    /\ pc = "api"
    /\ query = NoneObj
    /\ Len(results) < MaxRepos
    /\ \E path \in ApiPaths, log \in ApiLogs, now \in NowValues :
          /\ LET returned == analyze_repo(path, "ok", log, now)
             IN  IF returned = TypeError
                 THEN /\ exception' = TypeError
                      /\ UNCHANGED <<repos, results>>
                 ELSE IF returned = NoneObj
                 THEN /\ results' = Append(results, "None")
                      /\ exception' = NoneObj
                      /\ UNCHANGED repos
                 ELSE /\ repos' = Append(repos, returned)
                      /\ results' = Append(results, "stats")
                      /\ exception' = NoneObj
          /\ log_seen' = log
    /\ UNCHANGED <<cls_vars, qry_vars, pc, opts, cwd, repo_paths, idx, env_git,
                   stats, current_commit, languages, contribution_types,
                   nlines, exit_code, stderr, written>>

\* analyzer.get_activity_summary(period, custom_start, custom_end)
ApiSummary ==
    /\ pc = "api"
    /\ query = NoneObj
    /\ \E period \in Periods, custom_start \in CustomStarts,
          custom_end \in CustomEnds, now \in QueryNowValues :
          /\ query' = [op |-> "summary", period |-> period,
                       custom_start |-> custom_start, custom_end |-> custom_end,
                       n |-> 0, now |-> astimezone(now, LocalOffset)]
          /\ answer' = get_activity_summary(repos, period, custom_start, custom_end,
                                            astimezone(now, LocalOffset))
    /\ UNCHANGED <<cls_vars, cli_vars>>

\* analyzer.get_daily_activity(days)
ApiDaily ==
    /\ pc = "api"
    /\ query = NoneObj
    /\ \E days \in BucketCounts, now \in QueryNowValues :
          /\ query' = [op |-> "daily", period |-> None, custom_start |-> NoneObj,
                       custom_end |-> NoneObj, n |-> days,
                       now |-> astimezone(now, LocalOffset)]
          /\ answer' = get_daily_activity(repos, days, astimezone(now, LocalOffset))
    /\ UNCHANGED <<cls_vars, cli_vars>>

\* analyzer.get_weekly_activity(weeks)
ApiWeekly ==
    /\ pc = "api"
    /\ query = NoneObj
    /\ \E weeks \in BucketCounts, now \in QueryNowValues :
          /\ query' = [op |-> "weekly", period |-> None, custom_start |-> NoneObj,
                       custom_end |-> NoneObj, n |-> weeks,
                       now |-> astimezone(now, LocalOffset)]
          /\ answer' = get_weekly_activity(repos, weeks, astimezone(now, LocalOffset))
    /\ UNCHANGED <<cls_vars, cli_vars>>

\* analyzer.get_total_stats()
ApiTotals ==
    /\ pc = "api"
    /\ query = NoneObj
    /\ query' = [op |-> "totals", period |-> None, custom_start |-> NoneObj,
                 custom_end |-> NoneObj, n |-> 0, now |-> NoneObj]
    /\ answer' = get_total_stats(repos)
    /\ UNCHANGED <<cls_vars, cli_vars>>

RECURSIVE sorted_by_commits(_)
\* sorted(self.analyzer.repos, key=lambda r: r.total_commits, reverse=True):
\* a new list, the repositories with equal counts in their order
sorted_by_commits(rs) ==
    IF rs = <<>> THEN <<>>
    ELSE LET Placed(head, rest) ==
                 LET before == Cardinality({i \in 1..Len(rest) :
                                   rest[i].total_commits > head.total_commits})
                 IN  SubSeq(rest, 1, before) \o <<head>>
                        \o SubSeq(rest, before + 1, Len(rest))
         IN  Placed(Head(rs), sorted_by_commits(Tail(rs)))

\* The export methods of the five exporters, up to `content`: the data the
\* text is made of, or the exception raised
export_content(exporter, rs, now) ==
    CASE exporter = "JSONExporter" ->
             [summary |-> get_total_stats(rs),
              repositories |-> rs,
              daily_activity |-> get_daily_activity(rs, 7, now),
              weekly_activity |-> get_weekly_activity(rs, 4, now)]
      [] exporter = "MarkdownExporter" ->
             [stats |-> get_total_stats(rs),
              weekly |-> get_weekly_activity(rs, 4, now),
              repositories |-> sorted_by_commits(rs)]
      [] exporter = "LinkedInExporter" ->
             [stats |-> get_total_stats(rs),
              weekly |-> get_weekly_activity(rs, 1, now)[1]]
      [] exporter = "PortfolioExporter" ->
             IF portfolio_raises(rs) THEN ZeroDivisionError
             ELSE [stats |-> get_total_stats(rs),
                   repositories |-> sorted_by_commits(rs)]
      [] exporter = "ReadmeBadgeExporter" ->
             [stats |-> get_total_stats(rs),
              current_week |-> get_weekly_activity(rs, 1, now)[1]]

\* an exporter that sorts the analyzer's list itself
ApiExportSorting ==
    /\ pc = "api"
    /\ query = NoneObj
    /\ \E exporter \in Exporters, output_path \in OutputPaths, now \in QueryNowValues :
          LET Exported(content) ==
                  /\ answer' = content
                  /\ written' = IF output_path # None /\ content # ZeroDivisionError
                                THEN written \cup {output_path}
                                ELSE written
          IN  /\ query' = [op |-> "export", period |-> None, custom_start |-> NoneObj,
                           custom_end |-> NoneObj, n |-> 0,
                           now |-> astimezone(now, LocalOffset),
                           exporter |-> exporter, output_path |-> output_path]
              /\ Exported(export_content(exporter, repos, astimezone(now, LocalOffset)))
    /\ repos' = sorted_by_commits(repos)
    /\ UNCHANGED <<cls_vars, pc, opts, cwd, repo_paths, idx, results, env_git,
                   stats, current_commit, languages, contribution_types, log_seen,
                   nlines, exception, exit_code, stderr>>

\* Exporter(analyzer).export(output_path): the content is returned, and
\* written to output_path when one is given
ApiExport ==
    /\ pc = "api"
    /\ query = NoneObj
    /\ \E exporter \in Exporters, output_path \in OutputPaths, now \in QueryNowValues :
          LET Exported(content) ==
                  /\ answer' = content
                  /\ written' = IF output_path # None /\ content # ZeroDivisionError
                                THEN written \cup {output_path}
                                ELSE written
          IN  /\ query' = [op |-> "export", period |-> None, custom_start |-> NoneObj,
                           custom_end |-> NoneObj, n |-> 0,
                           now |-> astimezone(now, LocalOffset),
                           exporter |-> exporter, output_path |-> output_path]
              /\ Exported(export_content(exporter, repos, astimezone(now, LocalOffset)))
    /\ UNCHANGED <<cls_vars, pc, opts, cwd, repo_paths, idx, repos, results, env_git,
                   stats, current_commit, languages, contribution_types, log_seen,
                   nlines, exception, exit_code, stderr>>

NextSummary ==
    \/ ApiAnalyze
    \/ ApiSummary
    \/ ApiDaily
    \/ ApiWeekly
    \/ ApiTotals
    \/ ApiExport

SpecSummary == InitSummary /\ [][NextSummary]_vars

-----------------------------------------------------------------------------
(* The classifier alone: classify() called twice with the same arguments.  *)

\* main() idle, as far as the classifier is concerned
CliIdle ==
    /\ pc = "main"
    /\ opts = Options(<<"/w/a">>, None, 3, CHOOSE f \in FlagChoices : f.quiet)
    /\ cwd = "/w"
    /\ repo_paths = <<>>
    /\ Fresh

InitClassify ==
    /\ ClsIdle
    /\ CliIdle

\* classify(file_path, lines_added, lines_removed), the first call
ClassifyFirst ==
    /\ fc_input = NoneObj
    /\ \E file_path \in ClassifyPaths, counts \in ClassifyCounts :
          /\ fc_input' = [file_path |-> file_path, lines_added |-> counts[1],
                          lines_removed |-> counts[2]]
          /\ fc_first' = classify(file_path, counts[1], counts[2])
    /\ UNCHANGED <<fc_second, cli_vars, qry_vars>>

\* classify() again, with the arguments of the first call
ClassifyAgain ==
    /\ fc_input # NoneObj
    /\ fc_second = NoneObj
    /\ fc_second' = classify(fc_input.file_path, fc_input.lines_added,
                             fc_input.lines_removed)
    /\ UNCHANGED <<fc_input, fc_first, cli_vars, qry_vars>>

NextClassify ==
    \/ ClassifyFirst
    \/ ClassifyAgain

SpecClassify == InitClassify /\ [][NextClassify]_vars

-----------------------------------------------------------------------------
(* Properties of the classifier (SpecClassify).                            *)

\* The seven rules of classify, in the order of the specification: does
\* rule k match the path?
RuleMatches(k, path) ==
    LET lowered == Lower(path)
        ext == Lower(SplitExt(path))
    IN  CASE k = 1 -> \E m \in TEST_PATTERNS : Contains(m, lowered)
          [] k = 2 -> ext \in DOC_EXTENSIONS \/ \E m \in DOC_PATTERNS : Contains(m, lowered)
          [] k = 3 -> \E m \in INFRA_PATTERNS : Contains(m, lowered)
          [] k = 4 -> \E m \in SPEC_CONFIG_PATTERNS : Contains(m, lowered)
          [] k = 5 -> \E m \in STYLE_PATTERNS : Contains(m, lowered)
          [] k = 6 -> ext \in DOMAIN LANGUAGE_MAP
          [] k = 7 -> TRUE

RuleCategory(k) ==
    CASE k = 1 -> "tests"
      [] k = 2 -> "documentation"
      [] k = 3 -> "infrastructure"
      [] k = 4 -> "specs_config"
      [] k = 5 -> "styling"
      [] k = 6 -> "production_code"
      [] k = 7 -> "other"

\* The language rule k assigns.
RuleLanguage(k, path) ==
    LET ext == Lower(SplitExt(path))
        mapped == IF ext \in DOMAIN LANGUAGE_MAP THEN LANGUAGE_MAP[ext] ELSE None
    IN  CASE k = 1 -> mapped
          [] k = 2 -> "Documentation"
          [] k = 3 -> IF mapped = None THEN "Infrastructure" ELSE mapped
          [] k = 4 -> "Configuration"
          [] k = 5 -> "CSS/Styling"
          [] k = 6 -> mapped
          [] k = 7 -> None

FirstRule(path) == CHOOSE k \in 1..7 : RuleMatches(k, path) /\ \A j \in 1..(k - 1) : ~RuleMatches(j, path)

\* C1: classify returns the category and language of the first rule that
\* matches, in the order tests, documentation, infrastructure, specs/config,
\* styling, known language, other; a path matching a test pattern and a
\* config pattern is classified as tests.
C1_FirstRuleWins ==
    fc_first # NoneObj =>
        /\ fc_first.contribution_type = RuleCategory(FirstRule(fc_input.file_path))
        /\ fc_first.language =
               RuleLanguage(FirstRule(fc_input.file_path), fc_input.file_path)
        /\ (RuleMatches(1, fc_input.file_path) /\ RuleMatches(4, fc_input.file_path)
               => fc_first.contribution_type = "tests")

\* A test-runner configuration inside tests/ was classified: it matches a
\* test pattern and a config pattern, and came out as tests.
C1_Witness ==
    /\ fc_first # NoneObj
    /\ fc_input.file_path = "tests/jest.config.js"
    /\ RuleMatches(1, fc_input.file_path)
    /\ RuleMatches(4, fc_input.file_path)
    /\ fc_first.contribution_type = "tests"
    /\ fc_first.language = "JavaScript"

HoldsMarker(m, path) ==
    /\ Contains(Lower(m), Lower(path))
    /\ \A k \in 1..3 : ~RuleMatches(k, path)

\* C23: every marker of the spec/config pattern table is effective,
\* whatever the letter case: a path that holds one and matches no test,
\* documentation or infrastructure pattern is classified specs_config with
\* language "Configuration".
C23_EveryConfigMarkerEffective ==
    fc_first # NoneObj =>
        \A m \in SPEC_CONFIG_PATTERNS :
            HoldsMarker(m, fc_input.file_path)
            => /\ fc_first.contribution_type = "specs_config"
               /\ fc_first.language = "Configuration"

\* The same, for the markers the table lists in lower case.
C23_LowerCaseMarkersEffective ==
    fc_first # NoneObj =>
        \A m \in {x \in SPEC_CONFIG_PATTERNS : Lower(x) = x} :
            HoldsMarker(m, fc_input.file_path)
            => /\ fc_first.contribution_type = "specs_config"
               /\ fc_first.language = "Configuration"

-----------------------------------------------------------------------------
(* Properties of the log parser and of the per-repository totals           *)
(* (SpecParse).                                                            *)

\* The line is taken for a commit header.
IsHeaderLine(raw) == ScannedLines[raw].header # NoneObj

\* The line has the numeric-stat shape (and is not taken for a header).
IsStatLine(raw) == ~IsHeaderLine(raw) /\ NumstatMatch(Strip(raw)) # <<>>

HeaderLines(log) == SelectSeq(log, IsHeaderLine)

\* The commits of the log so far: the emitted ones, then the open one.
CommitsSoFar ==
    IF pc = "parse" /\ current_commit # NoneObj
    THEN Append(stats.commits, current_commit)
    ELSE stats.commits

\* C3: the parser emits one CommitRecord per commit-header line, in the
\* order of the header lines: a commit stays open until the next header
\* arrives, the open commit is emitted at the end of the input, and no commit
\* is emitted twice or lost.
C3_OneCommitPerHeader ==
    stats # NoneObj =>
        LET hs == HeaderLines(log_seen)
        IN  /\ Len(CommitsSoFar) = Len(hs)
            /\ \A i \in 1..Len(hs) :
                  /\ CommitsSoFar[i].hash = ScannedLines[hs[i]].header.hash
                  /\ CommitsSoFar[i].author = ScannedLines[hs[i]].header.author
                  /\ CommitsSoFar[i].email = ScannedLines[hs[i]].header.email
                  /\ CommitsSoFar[i].message = ScannedLines[hs[i]].header.message
            /\ pc = "parse" => Len(stats.commits) = (IF hs = <<>> THEN 0 ELSE Len(hs) - 1)
            /\ pc # "parse" => Len(stats.commits) = Len(hs)

\* The input ended after two headers: both commits were emitted, in order.
C3_Witness ==
    /\ pc = "analyze"
    /\ stats # NoneObj
    /\ Len(log_seen) = 3
    /\ Len(stats.commits) = 2
    /\ stats.commits[1].hash = "c3"
    /\ stats.commits[2].hash = "a1"
    /\ repos = <<stats>>

\* Number of header lines among the first i lines of the log.
HeadersUpTo(i) == Len(HeaderLines(SubSeq(log_seen, 1, i)))

\* C4: a header followed by the next header with no stat line between them
\* yields a CommitRecord with no files and no lines changed.
C4_EmptyCommitKept ==
    stats # NoneObj =>
        \A i, j \in 1..Len(log_seen) :
            ( /\ i < j
              /\ IsHeaderLine(log_seen[i])
              /\ IsHeaderLine(log_seen[j])
              /\ \A k \in (i + 1)..(j - 1) :
                    ~IsHeaderLine(log_seen[k]) /\ ~IsStatLine(log_seen[k]) )
            => /\ HeadersUpTo(i) <= Len(stats.commits)
               /\ stats.commits[HeadersUpTo(i)].hash = ScannedLines[log_seen[i]].header.hash
               /\ stats.commits[HeadersUpTo(i)].files_changed = 0
               /\ stats.commits[HeadersUpTo(i)].lines_added = 0
               /\ stats.commits[HeadersUpTo(i)].lines_removed = 0
               /\ stats.commits[HeadersUpTo(i)].file_classifications = <<>>

\* Header a1 was directly followed by header c3, and a1's record is empty.
C4_Witness ==
    /\ stats # NoneObj
    /\ Len(log_seen) >= 2
    /\ ScannedLines[log_seen[1]].header # NoneObj
    /\ ScannedLines[log_seen[1]].header.hash = "a1"
    /\ IsHeaderLine(log_seen[2])
    /\ Len(stats.commits) >= 1
    /\ stats.commits[1].hash = "a1"
    /\ stats.commits[1].files_changed = 0

\* The tab-separated fields of a line of git's --numstat output.
StatFields(raw) == Split(Strip(raw), "\t", 2)

\* The line is a numeric-stat line of git with "-" for a count: added,
\* removed and path separated by tabs, each count a number or "-".
IsPlaceholderLine(raw) ==
    /\ ~IsHeaderLine(raw)
    /\ Len(StatFields(raw)) = 3
    /\ \A i \in 1..2 : StatFields(raw)[i] = "-" \/ IsDigits(StatFields(raw)[i])
    /\ StatFields(raw)[3] # ""
    /\ "-" \in {StatFields(raw)[1], StatFields(raw)[2]}

\* The count a numstat group stands for: 0 for the placeholder.
CountOf(group) == IF group = "-" THEN 0 ELSE ParseInt(group)

\* C5: a numeric-stat line with "-" for a count is parsed without error,
\* the "-" counting 0, and is attached to the open commit as one file change:
\* files_changed grows by 1, one FileClassification is appended, the line
\* totals grow by the numeric counts only.
C5_PlaceholderIsZero ==
    [][ ( /\ pc = "parse"
          /\ current_commit # NoneObj
          /\ Len(log_seen') = Len(log_seen) + 1
          /\ IsPlaceholderLine(log_seen'[Len(log_seen')]) )
        => LET m == StatFields(log_seen'[Len(log_seen')])
               old == current_commit.file_classifications
               new == current_commit'.file_classifications
           IN  /\ pc' = "parse"
               /\ exception' = NoneObj
               /\ stats' = stats
               /\ current_commit'.files_changed = current_commit.files_changed + 1
               /\ Len(new) = Len(old) + 1
               /\ SubSeq(new, 1, Len(old)) = old
               /\ new[Len(new)].file_path = m[3]
               /\ new[Len(new)].lines_added = CountOf(m[1])
               /\ new[Len(new)].lines_removed = CountOf(m[2])
               /\ current_commit'.lines_added = current_commit.lines_added + CountOf(m[1])
               /\ current_commit'.lines_removed = current_commit.lines_removed + CountOf(m[2])
      ]_vars

\* "-\t-\tdocs/logo.png" and "3\t-\tREADME.md" were attached to a commit.
C5_Witness ==
    /\ pc = "parse"
    /\ current_commit # NoneObj
    /\ Len(log_seen) = 3
    /\ log_seen[2] = "-\t-\tdocs/logo.png"
    /\ log_seen[3] = "3\t-\tREADME.md"
    /\ current_commit.files_changed = 2
    /\ current_commit.lines_added = 3
    /\ current_commit.lines_removed = 0
    /\ current_commit.file_classifications[1].lines_added = 0
    /\ current_commit.file_classifications[1].lines_removed = 0

\* The records whose totals are final: the one analyze_repo just built and
\* those of the collection.
FinishedStats ==
    (IF pc # "parse" /\ stats # NoneObj THEN {stats} ELSE {})
        \cup {repos[i] : i \in 1..Len(repos)}

RECURSIVE SumOfField(_, _)
\* Sum of field f over the records of a sequence.
SumOfField(seq, f) ==
    IF seq = <<>> THEN 0 ELSE Head(seq)[f] + SumOfField(Tail(seq), f)

\* C6: the totals of a RepositoryStats are the sums of lines_added,
\* lines_removed and files_changed over its CommitRecords, and total_commits
\* is their number.
C6_TotalsAreSums ==
    \A st \in FinishedStats :
        /\ st.total_commits = Len(st.commits)
        /\ st.total_lines_added = SumOfField(st.commits, "lines_added")
        /\ st.total_lines_removed = SumOfField(st.commits, "lines_removed")
        /\ st.total_files_changed = SumOfField(st.commits, "files_changed")

\* One commit with two files, 15 lines added and 2 removed, was totalled.
C6_Witness ==
    /\ pc = "analyze"
    /\ repos # <<>>
    /\ repos[1].total_commits = 1
    /\ repos[1].total_files_changed = 2
    /\ repos[1].total_lines_added = 15
    /\ repos[1].total_lines_removed = 2

RECURSIVE Flatten(_)
\* The FileClassifications of a sequence of commits, in order.
Flatten(commits) ==
    IF commits = <<>> THEN <<>>
    ELSE Head(commits).file_classifications \o Flatten(Tail(commits))

RECURSIVE LinesWhere(_, _, _)
\* lines_added + lines_removed over the classifications whose field f is v
LinesWhere(fcs, f, v) ==
    IF fcs = <<>> THEN 0
    ELSE (IF Head(fcs)[f] = v THEN Head(fcs).lines_added + Head(fcs).lines_removed ELSE 0)
         + LinesWhere(Tail(fcs), f, v)

RECURSIVE SumOfValues(_)
\* sum(d.values())
SumOfValues(d) ==
    IF DOMAIN d = {} THEN 0
    ELSE LET k == CHOOSE k \in DOMAIN d : TRUE
         IN  d[k] + SumOfValues([x \in DOMAIN d \ {k} |-> d[x]])

\* C7: contribution_types maps each category to the lines added + removed
\* of exactly the FileClassifications of that category in the emitted
\* commits, languages likewise for the classifications with a language, and
\* the values of contribution_types sum to total_lines_added +
\* total_lines_removed.
C7_BreakdownsTraceToFiles ==
    \A st \in FinishedStats :
        LET fcs == Flatten(st.commits)
            types == {fcs[i].contribution_type : i \in 1..Len(fcs)}
            langs == {fcs[i].language : i \in 1..Len(fcs)} \ {None}
        IN  /\ DOMAIN st.contribution_types = types
            /\ \A c \in types :
                  st.contribution_types[c] = LinesWhere(fcs, "contribution_type", c)
            /\ DOMAIN st.languages = langs
            /\ \A l \in langs : st.languages[l] = LinesWhere(fcs, "language", l)
            /\ SumOfValues(st.contribution_types)
                  = st.total_lines_added + st.total_lines_removed

\* A commit with a production file and a test file was folded in.
C7_Witness ==
    /\ pc = "analyze"
    /\ repos # <<>>
    /\ DOMAIN repos[1].contribution_types = {"production_code", "tests"}
    /\ repos[1].contribution_types["production_code"] = 10
    /\ repos[1].contribution_types["tests"] = 7
    /\ repos[1].languages = ("Python" :> 17)

\* C9: a header whose date does not parse gets the current time and the
\* parse does not fail: the analysis completes and yields its RepositoryStats,
\* whatever the dates of the other commits of the log.
C9_BadDateTolerated ==
    ( /\ stats # NoneObj
      /\ \E i \in 1..Len(log_seen) :
            /\ IsHeaderLine(log_seen[i])
            /\ ScannedLines[log_seen[i]].header.date = ValueError )
    => /\ exception = NoneObj
       /\ pc # "aborted"

\* The line has the shape of a line of git's --numstat output: added,
\* removed and path separated by tabs, each count a number or "-".
IsStatShape(raw) ==
    /\ ~IsHeaderLine(raw)
    /\ Len(StatFields(raw)) = 3
    /\ \A i \in 1..2 : StatFields(raw)[i] = "-" \/ IsDigits(StatFields(raw)[i])
    /\ StatFields(raw)[3] # ""

\* The line is one the parser discards when `cur` is the open commit: a
\* blank line, a line that is neither a header nor of numeric-stat shape, a
\* numeric-stat line with no commit open.
IsDiscarded(raw, cur) ==
    \/ Strip(raw) = ""
    \/ ~IsHeaderLine(raw) /\ ~IsStatShape(raw)
    \/ IsStatShape(raw) /\ cur = NoneObj

\* C24: a discarded line changes neither the open commit, nor the emitted
\* commits, nor the language and contribution-type accumulators, and raises
\* nothing: the parse goes on.
C24_DiscardedLinesChangeNothing ==
    [][ ( /\ pc = "parse"
          /\ Len(log_seen') = Len(log_seen) + 1
          /\ IsDiscarded(log_seen'[Len(log_seen')], current_commit) )
        => /\ pc' = "parse"
           /\ exception' = exception
           /\ stats' = stats
           /\ current_commit' = current_commit
           /\ languages' = languages
           /\ contribution_types' = contribution_types
      ]_vars

\* A numeric-stat line with no commit open, a blank line and a line of
\* free text were read, and nothing was recorded.
C24_Witness ==
    /\ pc = "parse"
    /\ log_seen = <<"10\t0\tsrc/app.py", "", "Merge branch 'main'">>
    /\ current_commit = NoneObj
    /\ stats.commits = <<>>
    /\ languages = <<>>
    /\ contribution_types = <<>>
    /\ exception = NoneObj

RECURSIVE PathsByCommit(_)
\* For every header line of the log, in order, the paths of the
\* numeric-stat lines between it and the next header, in order.
PathsByCommit(log) ==
    IF log = <<>> THEN <<>>
    ELSE LET before == PathsByCommit(SubSeq(log, 1, Len(log) - 1))
             raw == log[Len(log)]
         IN  IF IsHeaderLine(raw) THEN Append(before, <<>>)
             ELSE IF IsStatShape(raw) /\ before # <<>>
             THEN [before EXCEPT ![Len(before)] = Append(@, StatFields(raw)[3])]
             ELSE before

\* The commits of the parse and of the collection.
AllCommits ==
    {CommitsSoFar[i] : i \in 1..Len(CommitsSoFar)}
        \cup UNION {{repos[r].commits[i] : i \in 1..Len(repos[r].commits)} :
                        r \in 1..Len(repos)}

\* C25: in every state of the parse and in every emitted CommitRecord,
\* files_changed is the number of entries of file_classifications,
\* lines_added and lines_removed are the sums over those entries, and the
\* entries are in the order of the stat lines after the commit's header.
C25_CommitMatchesItsFiles ==
    stats # NoneObj =>
        /\ \A c \in AllCommits :
              /\ c.files_changed = Len(c.file_classifications)
              /\ c.lines_added = SumOfField(c.file_classifications, "lines_added")
              /\ c.lines_removed = SumOfField(c.file_classifications, "lines_removed")
        /\ Len(PathsByCommit(log_seen)) = Len(CommitsSoFar)
        /\ \A k \in 1..Len(CommitsSoFar) :
              [i \in 1..Len(CommitsSoFar[k].file_classifications) |->
                  CommitsSoFar[k].file_classifications[i].file_path]
                = PathsByCommit(log_seen)[k]

\* Two files were attached to the open commit, in the order of their lines.
C25_Witness ==
    /\ pc = "parse"
    /\ current_commit # NoneObj
    /\ current_commit.files_changed = 2
    /\ current_commit.lines_added = 15
    /\ current_commit.lines_removed = 2
    /\ Len(current_commit.file_classifications) = 2
    /\ current_commit.file_classifications[1].file_path = "src/app.py"
    /\ current_commit.file_classifications[2].file_path = "tests/test_app.py"

\* C22: whatever text the author names, subjects and paths hold, a header
\* line is parsed into the five values git printed it from, and a
\* numeric-stat line read while a commit is open is attached to that commit
\* as a file change, not taken for a header.
C22_DelimiterNeverCollides ==
    [][ ( /\ pc = "parse"
          /\ Len(log_seen') = Len(log_seen) + 1 )
        => /\ \A c \in GitHeaders :
                 log_seen'[Len(log_seen')] = log_format(c)
                 => /\ current_commit' # NoneObj
                    /\ current_commit'.hash = c.hash
                    /\ current_commit'.author = c.author
                    /\ current_commit'.email = c.email
                    /\ current_commit'.message = c.subject
                    /\ current_commit'.file_classifications = <<>>
           /\ \A f \in GitFiles :
                 ( /\ log_seen'[Len(log_seen')] = numstat_format(f)
                   /\ current_commit # NoneObj )
                 => /\ current_commit'.hash = current_commit.hash
                    /\ stats' = stats
                    /\ current_commit'.files_changed = current_commit.files_changed + 1
                    /\ current_commit'.file_classifications[
                           Len(current_commit'.file_classifications)].file_path = f.path
      ]_vars

\* The same, for the headers and paths that hold no "|" outside the subject.
C22_HoldsWithoutDelimiterInText ==
    [][ ( /\ pc = "parse"
          /\ Len(log_seen') = Len(log_seen) + 1 )
        => /\ \A c \in {h \in GitHeaders : Count(h.author, "|") = 0} :
                 log_seen'[Len(log_seen')] = log_format(c)
                 => /\ current_commit' # NoneObj
                    /\ current_commit'.hash = c.hash
                    /\ current_commit'.author = c.author
                    /\ current_commit'.email = c.email
                    /\ current_commit'.message = c.subject
           /\ \A f \in {g \in GitFiles : Count(g.path, "|") < 4} :
                 ( /\ log_seen'[Len(log_seen')] = numstat_format(f)
                   /\ current_commit # NoneObj )
                 => /\ current_commit'.hash = current_commit.hash
                    /\ current_commit'.files_changed = current_commit.files_changed + 1
      ]_vars

-----------------------------------------------------------------------------
(* Properties of a run of main() (Spec).                                   *)

\* The paths analyze_repo has returned for, with what it returned.
Succeeded == {i \in 1..Len(results) : results[i] = "stats"}

\* The paths of the entries of repo_paths that were analyzed successfully,
\* in the order of repo_paths.
RECURSIVE PathsOfSuccess(_)
PathsOfSuccess(n) ==
    IF n = 0 THEN <<>>
    ELSE PathsOfSuccess(n - 1) \o (IF results[n] = "stats" THEN <<repo_paths[n]>> ELSE <<>>)

\* C8: one repository's failure never aborts a run over several
\* repositories: a path that is no repository, or whose git command is
\* missing, fails or times out, yields no stats, every later path is still
\* analyzed, and the collection ends up holding the successfully analyzed
\* repositories in the order given.
C8_FailureNeverAborts ==
    /\ Len(repos) = Len(PathsOfSuccess(Len(results)))
    /\ \A i \in 1..Len(repos) : repos[i].path = PathsOfSuccess(Len(results))[i]
    /\ ( /\ pc \notin {"main", "analyze", "parse"}
         /\ repo_paths # <<>>
         /\ \E i \in 1..Len(results) : results[i] = "None" )
       => Len(results) = Len(repo_paths)

\* C10: when main returns, it returns 0 exactly when at least one
\* repository was analyzed successfully, and it returns non-zero with a
\* diagnostic on standard error when the scan path is no directory, when the
\* scan finds no repository, when no repository is given and the current
\* directory is none, and when every resolved repository failed.
C10_ExitCode ==
    /\ pc = "returned" =>
          /\ exit_code \in {0, 1}
          /\ exit_code = 0 <=> Succeeded # {}
          /\ exit_code = 0 <=> repos # <<>>
          /\ exit_code # 0 => stderr # <<>>
    /\ pc # "returned" => exit_code = -1
    /\ pc \in {"summary", "exports"} => Succeeded # {}
    /\ ( /\ pc # "main"
         /\ opts.repos = <<>>
         /\ \/ opts.scan # None /\ ~isdir(abspath(opts.scan))
            \/ opts.scan # None /\ isdir(abspath(opts.scan))
                  /\ find_git_repos(abspath(opts.scan), opts.depth) = <<>>
            \/ opts.scan = None /\ ~isdir(join(cwd, ".git")) )
       => pc = "returned" /\ exit_code # 0 /\ stderr # <<>>
    /\ ( /\ pc = "analyze"
         /\ idx > Len(repo_paths)
         /\ Succeeded = {} )
       => ENABLED Gate

\* main returned 0 after one path failed and another was analyzed.
C10_Witness ==
    /\ pc = "returned"
    /\ exit_code = 0
    /\ Len(repo_paths) = 2
    /\ results = <<"None", "stats">>
    /\ stderr = <<>>

-----------------------------------------------------------------------------
(* Properties of the first and last commit date (SpecParse).               *)

\* C20: first_commit_date and last_commit_date of a RepositoryStats are the
\* minimum and the maximum of the dates of its commits, whatever the order of
\* the commits in the log, so first <= last; both are absent when the
\* repository has no commit.
C20_FirstLastAreMinMax ==
    \A n \in 1..Len(repos) :
        LET st == repos[n]
            dates == {st.commits[i].date : i \in 1..Len(st.commits)}
        IN  IF st.commits = <<>>
            THEN st.first_commit_date = NoneObj /\ st.last_commit_date = NoneObj
            ELSE /\ st.first_commit_date \in dates
                 /\ st.last_commit_date \in dates
                 /\ \A d \in dates : /\ LessEq(st.first_commit_date, d)
                                     /\ LessEq(d, st.last_commit_date)
                 /\ LessEq(st.first_commit_date, st.last_commit_date)

\* The log listed the later commit first: the first date is the second
\* commit's, the last date the first commit's.
C20_Witness ==
    /\ repos # <<>>
    /\ Len(repos[1].commits) = 2
    /\ repos[1].first_commit_date = repos[1].commits[2].date
    /\ repos[1].last_commit_date = repos[1].commits[1].date
    /\ Less(repos[1].first_commit_date, repos[1].last_commit_date)

-----------------------------------------------------------------------------
(* Properties of the repository discovery (Spec).                          *)

\* Path p lies inside the working tree of q.
Inside(p, q) == p # q /\ StartsWith(p, q \o "/")

\* C18: the discovery does not descend into a directory it has recognized
\* as a repository root: every path find_git_repos returns holds a .git
\* directory, and none lies inside the working tree of another returned
\* path, so of a repository nested in another only the outer one is reported.
C18_NoNestedRepos ==
    ( /\ pc # "main"
      /\ opts.repos = <<>>
      /\ opts.scan # None
      /\ isdir(abspath(opts.scan)) )
    => /\ repo_paths = find_git_repos(abspath(opts.scan), opts.depth)
       /\ \A i \in 1..Len(repo_paths) : isdir(join(repo_paths[i], ".git"))
       /\ \A i, j \in 1..Len(repo_paths) : ~Inside(repo_paths[i], repo_paths[j])

\* /w was scanned: /w/a was found, the repository /w/a/sub inside it was not.
C18_Witness ==
    /\ pc = "analyze"
    /\ opts.repos = <<>>
    /\ opts.scan = "/w"
    /\ isdir("/w/a/sub/.git")
    /\ \E i \in 1..Len(repo_paths) : repo_paths[i] = "/w/a"
    /\ \A i \in 1..Len(repo_paths) : repo_paths[i] # "/w/a/sub"

-----------------------------------------------------------------------------
(* Properties of the exports of a run of main() (Spec).                    *)

\* The exit status of the run, -1 while main is running: what main returned
\* to sys.exit, and 1 when an exception left main.
ExitStatus ==
    IF pc = "returned" THEN exit_code
    ELSE IF pc = "aborted" THEN 1
    ELSE -1

\* Every resolved repository was analyzed and one of them with success.
GatePassed ==
    /\ idx > Len(repo_paths)
    /\ Len(results) = Len(repo_paths)
    /\ repos # <<>>

\* C26: the console summary and every export write happen only after all
\* resolved repositories were analyzed and the gate passed, and a run that
\* ends with a non-zero exit code has written no export file and created
\* no export directory.
C26_ExportsOnlyAfterGate ==
    /\ pc \in {"summary", "exports"} => GatePassed
    /\ written # {} => GatePassed
    /\ ExitStatus > 0 => written = {}

\* The same for the runs in which main returns: it returns non-zero before
\* anything is written, and 0 after every file the flags name is written.
C26_ReturnedRunsWroteAllOrNothing ==
    /\ pc \in {"summary", "exports"} => GatePassed
    /\ written # {} => GatePassed
    /\ pc = "returned" /\ exit_code # 0 => written = {}
    /\ pc = "returned" /\ exit_code = 0 => written = export_targets(opts)

\* The portfolio export of --all-exports failed after three files were
\* written into the new directory.
C26_PartialExports ==
    /\ pc = "aborted"
    /\ exception = ZeroDivisionError
    /\ written = {"out", join("out", "activity.json"), join("out", "report.md"),
                  join("out", "linkedin.txt")}

-----------------------------------------------------------------------------
(* Properties of the queries over the collection (SpecSummary).            *)

\* The paths of the analyzed repositories.
AnalyzedPaths == {repos[i].path : i \in 1..Len(repos)}

\* The RepositoryStats of the latest analysis of the repository at path p.
LatestOf(p) ==
    repos[CHOOSE i \in 1..Len(repos) :
              /\ repos[i].path = p
              /\ \A j \in (i + 1)..Len(repos) : repos[j].path # p]

\* Sum of field f of the RepositoryStats of the distinct repositories.
TotalOverPaths(f) == SumOfValues([p \in AnalyzedPaths |-> LatestOf(p)[f]])

\* Sum of the counts of key k of dictionary field f over the distinct
\* repositories.
CountOverPaths(f, k) ==
    SumOfValues([p \in AnalyzedPaths |->
                    IF k \in DOMAIN LatestOf(p)[f] THEN LatestOf(p)[f][k] ELSE 0])

\* C11: the cross-repository totals count each analyzed repository once:
\* total_repos is the number of distinct repositories (by path) analyzed, and
\* the commit, line and file totals and the language and contribution-type
\* counts are the sums over those distinct repositories.
C11_NoDoubleCounting ==
    (query # NoneObj /\ query.op = "totals") =>
        /\ answer.total_repos = Cardinality(AnalyzedPaths)
        /\ answer.total_commits = TotalOverPaths("total_commits")
        /\ answer.total_lines_added = TotalOverPaths("total_lines_added")
        /\ answer.total_lines_removed = TotalOverPaths("total_lines_removed")
        /\ answer.total_files_changed = TotalOverPaths("total_files_changed")
        /\ \A k \in DOMAIN answer.languages :
              answer.languages[k] = CountOverPaths("languages", k)
        /\ \A k \in DOMAIN answer.contribution_types :
              answer.contribution_types[k] = CountOverPaths("contribution_types", k)

RECURSIVE CommitsOf(_)
\* The commits of a sequence of RepositoryStats, in order.
CommitsOf(rs) == IF rs = <<>> THEN <<>> ELSE Head(rs).commits \o CommitsOf(Tail(rs))

\* The timestamp of the commit lies in [start, end].
InPeriod(c, start, end) ==
    /\ LessEq(start, aligned(c.date, start))
    /\ LessEq(aligned(c.date, start), end)

\* The commits of the collection inside [start, end].
CommitsInPeriod(start, end) ==
    SelectSeq(CommitsOf(repos), LAMBDA c : InPeriod(c, start, end))

\* A period summary was returned.
SummaryReturned ==
    /\ query # NoneObj
    /\ query.op = "summary"
    /\ "raised" \notin DOMAIN answer

\* C12: a period summary counts a commit iff start <= timestamp <= end:
\* its counts and breakdowns are those of exactly the commits inside
\* [period_start, period_end], the two bounds included, and a commit outside
\* contributes to none of them.
C12_BoundaryInclusive ==
    SummaryReturned =>
        LET sel == CommitsInPeriod(answer.period_start, answer.period_end)
            fcs == Flatten(sel)
            types == {fcs[i].contribution_type : i \in 1..Len(fcs)}
            langs == {fcs[i].language : i \in 1..Len(fcs)} \ {None}
        IN  /\ answer.commits = Len(sel)
            /\ answer.lines_added = SumOfField(sel, "lines_added")
            /\ answer.lines_removed = SumOfField(sel, "lines_removed")
            /\ answer.files_changed = SumOfField(sel, "files_changed")
            /\ DOMAIN answer.contribution_breakdown = types
            /\ \A t \in types :
                  answer.contribution_breakdown[t] = LinesWhere(fcs, "contribution_type", t)
            /\ DOMAIN answer.language_breakdown = langs
            /\ \A l \in langs :
                  answer.language_breakdown[l] = LinesWhere(fcs, "language", l)

\* A custom period whose start is the timestamp of one commit and whose end
\* is the timestamp of another: both were counted, the commits outside not.
C12_Witness ==
    /\ SummaryReturned
    /\ query.period = "custom"
    /\ answer.commits = 2
    /\ Len(CommitsOf(repos)) = 4
    /\ \E i, j \in 1..Len(CommitsOf(repos)) :
          /\ CommitsOf(repos)[i].date = answer.period_start
          /\ CommitsOf(repos)[j].date = answer.period_end
          /\ Less(answer.period_start, answer.period_end)

\* The paths of the repositories with a commit inside [start, end].
ActivePaths(start, end) ==
    {repos[i].path : i \in {n \in 1..Len(repos) :
        \E k \in 1..Len(repos[n].commits) : InPeriod(repos[n].commits[k], start, end)}}

\* C13: repos_active of a period summary is the number of distinct analyzed
\* repositories, told apart by their path, that have a commit inside the
\* period.
C13_ReposActiveByPath ==
    SummaryReturned =>
        answer.repos_active
            = Cardinality(ActivePaths(answer.period_start, answer.period_end))

\* The buckets of a rolling query, when one was made.
BucketsReturned ==
    /\ query # NoneObj
    /\ query.op \in {"daily", "weekly"}

\* C14: every bucket of the daily and of the weekly rolling summaries
\* reports the commits, lines_added, lines_removed, files_changed and
\* repos_active of the period summary with custom bounds equal to the
\* bucket's period_start and period_end, over the same repositories.
C14_BucketsMatchCustomSummary ==
    BucketsReturned =>
        \A i \in 1..Len(answer) :
            LET custom == get_activity_summary(repos, "custom", answer[i].period_start,
                                               answer[i].period_end, query.now)
            IN  /\ answer[i].commits = custom.commits
                /\ answer[i].lines_added = custom.lines_added
                /\ answer[i].lines_removed = custom.lines_removed
                /\ answer[i].files_changed = custom.files_changed
                /\ answer[i].repos_active = custom.repos_active

\* C15: get_daily_activity(N) and get_weekly_activity(N) return exactly N
\* buckets, the most recent first (period_start strictly decreasing), and
\* no two buckets overlap: the later-listed one ends before the other starts.
C15_BucketsOrderedDisjoint ==
    BucketsReturned =>
        /\ Len(answer) = query.n
        /\ \A i \in 1..Len(answer) :
              LessEq(answer[i].period_start, answer[i].period_end)
        /\ \A i, j \in 1..Len(answer) :
              i < j =>
                /\ Less(answer[j].period_start, answer[i].period_start)
                /\ Less(answer[j].period_end, answer[i].period_start)

\* Three buckets were asked for, and a commit fell in the second.
C15_Witness ==
    /\ BucketsReturned
    /\ query.n = 3
    /\ Len(answer) = 3
    /\ answer[2].commits > 0
    /\ answer[1].commits = 0

\* The totals of the collection, when they were asked for.
TotalsReturned ==
    /\ query # NoneObj
    /\ query.op = "totals"

Distance(a, b) == IF a < b THEN b - a ELSE a - b

\* C16: with a positive total of classified lines there is one percentage for
\* every counted contribution type, each is count / total * 100 rounded to
\* one decimal (at most 0.05 away from the quotient), and together they are
\* at most 0.05 per type away from 100; with a total of 0 the mapping is
\* empty.  Percentages are in tenths of a percent.
C16_PercentagesRounded ==
    TotalsReturned =>
        LET types == answer.contribution_types
            pct == answer.contribution_percentages
            total == SumOfValues(types)
        IN  IF total > 0
            THEN /\ DOMAIN pct = DOMAIN types
                 /\ \A k \in DOMAIN types :
                       2 * Distance(pct[k] * total, 1000 * types[k]) <= total
                 /\ 2 * Distance(SumOfValues(pct), 1000)
                        <= Cardinality(DOMAIN types)
            ELSE pct = <<>>

\* Three counted types whose quotients all need rounding.
C16_Witness ==
    /\ TotalsReturned
    /\ Cardinality(DOMAIN answer.contribution_types) = 3
    /\ \E k \in DOMAIN answer.contribution_percentages :
          (1000 * answer.contribution_types[k])
              % SumOfValues(answer.contribution_types) # 0
    /\ SumOfValues(answer.contribution_percentages) # 1000

\* A counted type of zero lines and no percentages.
C16_WitnessZero ==
    /\ TotalsReturned
    /\ DOMAIN answer.contribution_types # {}
    /\ answer.contribution_percentages = <<>>

\* The lines of a log that are not blank.
Written(log) == SelectSeq(log, LAMBDA raw : Strip(raw) # "")

\* The log of the scenario: commit A with src/app.py (+10/-0) and
\* tests/test_app.py (+5/-0), then commit B with README.md (+3/-0).
IsScenarioLog(log) ==
    LET w == Written(log)
    IN  /\ Len(w) = 5
        /\ IsHeaderLine(w[1])
        /\ StatFields(w[2]) = <<"10", "0", "src/app.py">>
        /\ StatFields(w[3]) = <<"5", "0", "tests/test_app.py">>
        /\ IsHeaderLine(w[4])
        /\ StatFields(w[5]) = <<"3", "0", "README.md">>

\* The totals of a collection that holds the scenario's repository only.
ScenarioTotals ==
    /\ TotalsReturned
    /\ results = <<"stats">>
    /\ IsScenarioLog(log_seen)

\* C17: the repository of the scenario alone yields total_commits 2,
\* total_lines_added 18, languages Python 15 and Documentation 3,
\* contribution types production code 10, tests 5 and documentation 3, and
\* the percentages 55.6, 27.8 and 16.7 (in tenths of a percent).
C17_EndToEnd ==
    ScenarioTotals =>
        /\ answer.total_commits = 2
        /\ answer.total_lines_added = 18
        /\ answer.languages = [k \in {"Python", "Documentation"} |->
                                  IF k = "Python" THEN 15 ELSE 3]
        /\ answer.contribution_types =
              [k \in {"production_code", "tests", "documentation"} |->
                  CASE k = "production_code" -> 10
                    [] k = "tests" -> 5
                    [] k = "documentation" -> 3]
        /\ answer.contribution_percentages =
              [k \in {"production_code", "tests", "documentation"} |->
                  CASE k = "production_code" -> 556
                    [] k = "tests" -> 278
                    [] k = "documentation" -> 167]

\* The scenario's repository was analyzed and the totals were computed.
C17_Witness ==
    /\ ScenarioTotals
    /\ Len(repos) = 1
    /\ Len(repos[1].commits) = 2
    /\ answer.total_repos = 1

\* A period summary was asked for with period kind "custom" and both bounds.
BothBoundsGiven ==
    /\ query.period = "custom"
    /\ query.custom_start # NoneObj
    /\ query.custom_end # NoneObj

\* The period kinds get_activity_summary has a window of its own for.
NamedPeriods == {"day", "week", "month"}

\* C19: the custom bounds are the period of the summary only when the period
\* kind is "custom" and both bounds are supplied; a "custom" period with a
\* bound missing, and an unrecognized period kind, give the default window
\* from now minus 7 days to now, labelled "Last 7 Days"; the other period
\* kinds end now whatever the custom bounds.
C19_CustomNeedsBothBounds ==
    SummaryReturned =>
        /\ BothBoundsGiven =>
              /\ answer.period_start = query.custom_start
              /\ answer.period_end = query.custom_end
        /\ (~BothBoundsGiven /\ query.period \notin NamedPeriods) =>
              /\ answer.period_start = [query.now EXCEPT !.t = @ - 7 * 86400]
              /\ answer.period_end = query.now
              /\ answer.period_label = "Last 7 Days"
        /\ query.period \in NamedPeriods =>
              /\ answer.period_end = query.now
              /\ answer.period_label \in {"Today", "This Week", "This Month"}

\* A "custom" summary asked for with the end bound missing counted the
\* commits of the last seven days.
C19_Witness ==
    /\ SummaryReturned
    /\ query.period = "custom"
    /\ query.custom_start # NoneObj
    /\ query.custom_end = NoneObj
    /\ answer.period_label = "Last 7 Days"
    /\ answer.commits > 0

-----------------------------------------------------------------------------
(* Properties of the exports and queries as readers (SpecSummary).         *)

\* C21: no export and no query changes the state of the analyzer: a step
\* that makes a report (with or without an output path), the totals or a
\* period, daily or weekly summary leaves the collection and every
\* repository and commit in it as they were, and a repository once in the
\* collection is never changed by a later analysis.
C21_ReadersLeaveStateUnchanged ==
    [][ /\ query' # query => repos' = repos
        /\ Len(repos') >= Len(repos)
        /\ \A i \in 1..Len(repos) : repos'[i] = repos[i]
        /\ repos' # repos => /\ query' = query
                             /\ Len(repos') = Len(repos) + 1
                             /\ Len(results') = Len(results) + 1 ]_vars

\* A Markdown report was written over two repositories that the report
\* lists in another order than the collection holds them.
C21_Witness ==
    /\ query # NoneObj
    /\ query.op = "export"
    /\ query.exporter = "MarkdownExporter"
    /\ written = {"report.out"}
    /\ Len(repos) = 2
    /\ repos[1].total_commits < repos[2].total_commits
    /\ answer.repositories = <<repos[2], repos[1]>>

====
